---- MODULE Spec2Model ----
(***************************************************************************)
(* Security verification pipeline of connexion                             *)
(* (connexion/security/security_handler_factory.py and its asyncio twin):  *)
(* the scheme verifiers verify_bearer / verify_oauth / verify_basic /      *)
(* verify_api_key, the check_* classification of what the verification     *)
(* function returned, validate_scope, and the verify_security wrapper      *)
(* that runs the verifiers in order and installs the identity into the     *)
(* request context.                                                        *)
(*                                                                         *)
(* Python strings are sequences of one-character strings, so that          *)
(* str.split, str.lower and base64 decoding are computed and not assumed.  *)
(* Python values carry a type tag t.                                       *)
(***************************************************************************)
EXTENDS Integers, Sequences, FiniteSets, TLC

\* ------------------------------------------------------------------------
\* Bounds of the model
\* ------------------------------------------------------------------------
\* longest list of verifiers handed to verify_security
MaxFuncs == 2
\* longest list of required scopes, and of granted scopes, in the
\* scope-validation runs
MaxScopes == 2
\* most awaits a pending result takes to resolve
MaxAwaits == 2

\* ------------------------------------------------------------------------
\* Python values
\* ------------------------------------------------------------------------
PyNone == [t |-> "None"]
\* SecurityHandlerFactory.no_value = object(): a value equal to nothing else
no_value == [t |-> "no_value"]
\* marks a key that a dict does not have
Missing == [t |-> "missing"]
PyStr(s) == [t |-> "str", v |-> s]
PyList(l) == [t |-> "list", v |-> l]
PyTuple(l) == [t |-> "tuple", v |-> l]
\* a token info dict over the keys the code reads plus one extra claim
PyDict(sub, uid, scope, scopes, extra) ==
    [t |-> "dict", sub |-> sub, uid |-> uid, scope |-> scope,
     scopes |-> scopes, extra |-> extra]

\* dict.get(key, default)
DictGet(d, key, default) == IF d[key] = Missing THEN default ELSE d[key]

\* ------------------------------------------------------------------------
\* str.lower, str.split
\* ------------------------------------------------------------------------
UpperLetters ==
    <<"A","B","C","D","E","F","G","H","I","J","K","L","M",
      "N","O","P","Q","R","S","T","U","V","W","X","Y","Z">>
LowerLetters ==
    <<"a","b","c","d","e","f","g","h","i","j","k","l","m",
      "n","o","p","q","r","s","t","u","v","w","x","y","z">>

LowerChar(c) ==
    IF \E k \in 1..26 : UpperLetters[k] = c
    THEN LowerLetters[CHOOSE k \in 1..26 : UpperLetters[k] = c]
    ELSE c

\* str.lower()
Lower(s) == [k \in 1..Len(s) |-> LowerChar(s[k])]

\* the characters str.split() without a separator treats as whitespace
IsSpace(c) == c \in {" ", "\t", "\n", "\r"}

\* index of the first position >= k of s holding (or not holding) whitespace,
\* Len(s)+1 when there is none
RECURSIVE SkipSpace(_, _)
SkipSpace(s, k) ==
    IF k > Len(s) \/ ~IsSpace(s[k]) THEN k ELSE SkipSpace(s, k + 1)
RECURSIVE SkipWord(_, _)
SkipWord(s, k) ==
    IF k > Len(s) \/ IsSpace(s[k]) THEN k ELSE SkipWord(s, k + 1)

\* s.split(None, 1): at most two fields, the second keeps its inner and
\* trailing whitespace
SplitNone1(s) ==
    LET b == SkipSpace(s, 1)
        e == SkipWord(s, b)
        r == SkipSpace(s, e)
    IN  IF b > Len(s) THEN << >>
        ELSE IF r > Len(s) THEN << SubSeq(s, b, e - 1) >>
        ELSE << SubSeq(s, b, e - 1), SubSeq(s, r, Len(s)) >>

\* s.split(): every whitespace-separated word
RECURSIVE SplitFrom(_, _)
SplitFrom(s, k) ==
    LET b == SkipSpace(s, k)
        e == SkipWord(s, b)
    IN  IF b > Len(s) THEN << >>
        ELSE << SubSeq(s, b, e - 1) >> \o SplitFrom(s, e)
Split(s) == SplitFrom(s, 1)

\* s.split(sep, 1) for a one-character separator
RECURSIVE FindChar(_, _, _)
FindChar(s, c, k) ==
    IF k > Len(s) \/ s[k] = c THEN k ELSE FindChar(s, c, k + 1)
\* s.rsplit(sep, 1): the split at the last separator
SplitSep1_last(s, c) ==
    LET ps == { k \in 1..Len(s) : s[k] = c }
        p == CHOOSE k \in ps : \A j \in ps : j <= k
    IN  IF ps = { } THEN << s >>
        ELSE << SubSeq(s, 1, p - 1), SubSeq(s, p + 1, Len(s)) >>

SplitSep1(s, c) ==
    LET p == FindChar(s, c, 1)
    IN  IF p > Len(s) THEN << s >>
        ELSE << SubSeq(s, 1, p - 1), SubSeq(s, p + 1, Len(s)) >>

\* set(sequence)
ToSet(l) == { l[k] : k \in 1..Len(l) }

\* ------------------------------------------------------------------------
\* base64.b64decode(s).decode('latin1')
\* ------------------------------------------------------------------------
B64Alphabet ==
    <<"A","B","C","D","E","F","G","H","I","J","K","L","M",
      "N","O","P","Q","R","S","T","U","V","W","X","Y","Z",
      "a","b","c","d","e","f","g","h","i","j","k","l","m",
      "n","o","p","q","r","s","t","u","v","w","x","y","z",
      "0","1","2","3","4","5","6","7","8","9","+","/">>

\* the printable ASCII characters, code 32 first (code 96, the grave accent,
\* is spelled out)
Ascii ==
    <<" ","!","\"","#","$","%","&","'","(",")","*","+",",","-",".","/",
      "0","1","2","3","4","5","6","7","8","9",":",";","<","=",">","?",
      "@","A","B","C","D","E","F","G","H","I","J","K","L","M","N","O",
      "P","Q","R","S","T","U","V","W","X","Y","Z","[","\\","]","^","_",
      "<grave>","a","b","c","d","e","f","g","h","i","j","k","l","m","n","o",
      "p","q","r","s","t","u","v","w","x","y","z","{","|","}","~">>

IsB64(c) == \E k \in 1..64 : B64Alphabet[k] = c
B64Value(c) == (CHOOSE k \in 1..64 : B64Alphabet[k] = c) - 1

\* bytes.decode('latin1') of one byte; a byte outside printable ASCII is
\* kept as one opaque character
Latin1Char(b) == IF b >= 32 /\ b <= 126 THEN Ascii[b - 31] ELSE "<byte>"

\* binascii.a2b_base64 in its default non-strict mode: characters outside
\* the alphabet are skipped, a complete pad sequence ends the input, and a
\* quad left open at the end is an error.  q is quad_pos, left is leftchar.
RECURSIVE A2B(_, _, _, _, _, _)
A2B(s, k, q, left, pads, out) ==
    IF k > Len(s)
    THEN IF q # 0 THEN [ok |-> FALSE, v |-> << >>] ELSE [ok |-> TRUE, v |-> out]
    ELSE IF s[k] = "="
    THEN IF q >= 2 /\ q + pads + 1 >= 4
         THEN [ok |-> TRUE, v |-> out]
         ELSE A2B(s, k + 1, q, left, IF q >= 2 THEN pads + 1 ELSE pads, out)
    ELSE IF ~IsB64(s[k])
    THEN A2B(s, k + 1, q, left, pads, out)
    ELSE LET c == B64Value(s[k])
         IN  CASE q = 0 -> A2B(s, k + 1, 1, c, 0, out)
               [] q = 1 -> A2B(s, k + 1, 2, c % 16, 0,
                               Append(out, (left * 4 + c \div 16) % 256))
               [] q = 2 -> A2B(s, k + 1, 3, c % 4, 0,
                               Append(out, (left * 16 + c \div 4) % 256))
               [] q = 3 -> A2B(s, k + 1, 0, 0, 0,
                               Append(out, (left * 64 + c) % 256))

\* base64.b64decode(s).decode('latin1'); ok = FALSE when b64decode raises
B64DecodeLatin1(s) ==
    LET d == A2B(s, 1, 0, 0, 0, << >>)
    IN  IF d.ok
        THEN [ok |-> TRUE, v |-> [k \in 1..Len(d.v) |-> Latin1Char(d.v[k])]]
        ELSE [ok |-> FALSE, v |-> << >>]

\* ------------------------------------------------------------------------
\* Outcomes of a call and the failures of connexion.exceptions
\* ------------------------------------------------------------------------
Ret(v) == [o |-> "return", v |-> v]
Raise(e) == [o |-> "raise", e |-> e]

\* OAuthProblem(description='Invalid authorization header')
InvalidHeader ==
    [type |-> "OAuthProblem", description |-> "Invalid authorization header"]
\* OAuthProblem(description='No authorization token provided')
NoAuthorization ==
    [type |-> "OAuthProblem", description |-> "No authorization token provided"]
\* OAuthResponseProblem(description='Provided token is not valid')
InvalidToken ==
    [type |-> "OAuthResponseProblem", description |-> "Provided token is not valid"]
\* OAuthResponseProblem(description='Provided authorization is not valid')
InvalidCredentials ==
    [type |-> "OAuthResponseProblem",
     description |-> "Provided authorization is not valid"]
\* OAuthResponseProblem(description='Provided apikey is not valid')
InvalidApiKey ==
    [type |-> "OAuthResponseProblem", description |-> "Provided apikey is not valid"]
\* OAuthScopeProblem(description=..., required_scopes=..., token_scopes=...)
InsufficientScope(required_scopes, token_scopes) ==
    [type |-> "OAuthScopeProblem",
     description |-> "Provided token doesn't have the required scope",
     required_scopes |-> required_scopes, token_scopes |-> token_scopes]
\* what a verification function itself raises when it rejects a credential
\* (the remote introspectors of the Flask and aiohttp factories do)
RemoteTokenRejected ==
    [type |-> "OAuthResponseProblem", description |-> "token_response"]
\* the interpreter's own errors
AttributeError == [type |-> "AttributeError", description |-> ""]
CookieError == [type |-> "CookieError", description |-> "Illegal key"]

\* ------------------------------------------------------------------------
\* SecurityHandlerFactory: pure parts
\* ------------------------------------------------------------------------
Bearer == <<"b","e","a","r","e","r">>
Basic == <<"b","a","s","i","c">>

\* the subset test turned around
validate_scope_reversed(required_scopes, token_scopes) ==
    IF token_scopes.t = "list"
    THEN Ret(ToSet(token_scopes.v) \subseteq ToSet(required_scopes))
    ELSE IF token_scopes.t = "str"
    THEN Ret(ToSet(Split(token_scopes.v)) \subseteq ToSet(required_scopes))
    ELSE Raise(AttributeError)

\* validate_scope(required_scopes, token_scopes): required_scopes is a list
\* of scope names; token_scopes is a list, or anything else, of which only a
\* str has the split() the else branch calls
validate_scope(required_scopes, token_scopes) ==
    IF token_scopes.t = "list"
    THEN Ret(ToSet(required_scopes) \subseteq ToSet(token_scopes.v))
    ELSE IF token_scopes.t = "str"
    THEN Ret(ToSet(required_scopes) \subseteq ToSet(Split(token_scopes.v)))
    ELSE Raise(AttributeError)

\* the scheme compared as it was sent
get_auth_header_value_case_sensitive(request) ==
    LET authorization == request.headers["Authorization"]
    IN  IF authorization = PyNone \/ authorization.v = << >>
        THEN Ret([auth_type |-> PyNone, value |-> PyNone])
        ELSE LET parts == SplitNone1(authorization.v)
             IN  IF Len(parts) # 2
                 THEN Raise(InvalidHeader)
                 ELSE Ret([auth_type |-> PyStr(parts[1]),
                           value |-> PyStr(parts[2])])

\* get_auth_header_value(request): (None, None) without a header or with an
\* empty one, InvalidHeader when the header has no second field
get_auth_header_value(request) ==
    LET authorization == request.headers["Authorization"]
    IN  IF authorization = PyNone \/ authorization.v = << >>
        THEN Ret([auth_type |-> PyNone, value |-> PyNone])
        ELSE LET parts == SplitNone1(authorization.v)
             IN  IF Len(parts) # 2
                 THEN Raise(InvalidHeader)
                 ELSE Ret([auth_type |-> PyStr(Lower(parts[1])),
                           value |-> PyStr(parts[2])])

\* str(cookies) as http.cookies sees it.  A Cookie header is a sequence of
\* items: kind "pair" (key=value, legal says whether the key is made of the
\* characters Morsel.set accepts), "bare" (a key without a value) or
\* "nomatch" (text the cookie pattern does not match).  str(None) is the
\* bare word None.
CookieItems(cookies) ==
    IF cookies = PyNone
    THEN << [kind |-> "bare", key |-> "None", legal |-> TRUE, val |-> << >>] >>
    ELSE cookies.v

\* SimpleCookie.load: parsing stops at the first item the pattern does not
\* match; a bare key makes the whole string invalid and loads nothing; then
\* every parsed pair is set, which raises CookieError for an illegal key.
\* The result is the sequence of pairs loaded.
RECURSIVE Matched(_, _)
Matched(items, k) ==
    IF k > Len(items) \/ items[k].kind = "nomatch" THEN << >>
    ELSE << items[k] >> \o Matched(items, k + 1)
CookieLoad(items) ==
    LET parsed == Matched(items, 1)
    IN  IF \E k \in 1..Len(parsed) : parsed[k].kind = "bare"
        THEN Ret(<< >>)
        ELSE IF \E k \in 1..Len(parsed) : ~parsed[k].legal
        THEN Raise(CookieError)
        ELSE Ret(parsed)

\* get_cookie_value(cookies, name): the value of the last pair called name,
\* None when there is none
get_cookie_value(cookies, name) ==
    LET loaded == CookieLoad(CookieItems(cookies))
    IN  IF loaded.o = "raise" THEN loaded
        ELSE LET hits == { k \in 1..Len(loaded.v) : loaded.v[k].key = name }
             IN  IF hits = {} THEN Ret(PyNone)
                 ELSE Ret(PyStr(loaded.v[CHOOSE k \in hits :
                                           \A j \in hits : j <= k].val))

\* ------------------------------------------------------------------------
\* check_*: classification of what the verification function returned.
\* fres is the outcome of calling the verification function: Ret(value) or,
\* when the function itself raises, Raise(failure).
\* ------------------------------------------------------------------------
\* a null result taken for "scheme not applicable"
check_bearer_token_fallthrough(fres) ==
    IF fres.o = "raise" THEN fres
    ELSE IF fres.v = no_value \/ fres.v = PyNone THEN Ret(no_value)
    ELSE Ret(fres.v)

check_bearer_token(fres) ==
    IF fres.o = "raise" THEN fres
    ELSE IF fres.v = no_value THEN Ret(no_value)
    ELSE IF fres.v = PyNone THEN Raise(InvalidToken)
    ELSE Ret(fres.v)

\* the result tested for truth instead of for None
check_basic_auth_falsy_rejected(fres) ==
    IF fres.o = "raise" THEN fres
    ELSE IF fres.v = no_value THEN Ret(no_value)
    ELSE IF fres.v = PyNone \/ fres.v = PyDict(Missing, Missing, Missing,
                                              Missing, Missing)
    THEN Raise(InvalidCredentials)
    ELSE Ret(fres.v)

check_basic_auth(fres) ==
    IF fres.o = "raise" THEN fres
    ELSE IF fres.v = no_value THEN Ret(no_value)
    ELSE IF fres.v = PyNone THEN Raise(InvalidCredentials)
    ELSE Ret(fres.v)

\* a null result handed on as if it were a token info
check_api_key_null_passes(fres) ==
    IF fres.o = "raise" THEN fres
    ELSE IF fres.v = no_value THEN Ret(no_value)
    ELSE Ret(fres.v)

check_api_key(fres) ==
    IF fres.o = "raise" THEN fres
    ELSE IF fres.v = no_value THEN Ret(no_value)
    ELSE IF fres.v = PyNone THEN Raise(InvalidApiKey)
    ELSE Ret(fres.v)

\* the granted scopes read from 'scope' only
check_oauth_func_no_fallback(fres, required_scopes) ==
    IF fres.o = "raise" THEN fres
    ELSE IF fres.v = no_value THEN Ret(no_value)
    ELSE IF fres.v = PyNone THEN Raise(InvalidToken)
    ELSE LET token_info == fres.v
             token_scopes == DictGet(token_info, "scope", PyStr(<< >>))
             validation == validate_scope(required_scopes, token_scopes)
         IN  IF validation.o = "raise" THEN validation
             ELSE IF ~validation.v
             THEN Raise(InsufficientScope(required_scopes, token_scopes))
             ELSE Ret(token_info)

\* check_oauth_func with scope_validate_func = validate_scope (the default
\* get_scope_validate_func resolves to)
check_oauth_func(fres, required_scopes) ==
    IF fres.o = "raise" THEN fres
    ELSE IF fres.v = no_value THEN Ret(no_value)
    ELSE IF fres.v = PyNone THEN Raise(InvalidToken)
    ELSE LET token_info == fres.v
             \* Fallback to 'scopes' for backward compatibility
             token_scopes ==
                 DictGet(token_info, "scope",
                         DictGet(token_info, "scopes", PyStr(<< >>)))
             validation == validate_scope(required_scopes, token_scopes)
         IN  IF validation.o = "raise" THEN validation
             ELSE IF ~validation.v
             THEN Raise(InsufficientScope(required_scopes, token_scopes))
             ELSE Ret(token_info)

\* ------------------------------------------------------------------------
\* verify_*: the scheme verifiers.  Each yields
\*   out    what the verifier returns or raises,
\*   called whether it invoked its verification function,
\*   args   the arguments of that invocation.
\* ------------------------------------------------------------------------
NotCalled(out) == [out |-> out, called |-> FALSE, args |-> [none |-> TRUE]]
Called(out, args) == [out |-> out, called |-> TRUE, args |-> args]

verify_oauth(request, required_scopes, fres) ==
    LET h == get_auth_header_value(request)
    IN  IF h.o = "raise" THEN NotCalled(h)
        ELSE IF h.v.auth_type # PyStr(Bearer) THEN NotCalled(Ret(no_value))
        ELSE Called(check_oauth_func(fres, required_scopes),
                    [token |-> h.v.value])

\* a bearer verifier that checks the scopes as the oauth2 verifier does
verify_bearer_scoped(request, required_scopes, fres) ==
    LET h == get_auth_header_value(request)
    IN  IF h.o = "raise" THEN NotCalled(h)
        ELSE IF h.v.auth_type # PyStr(Bearer) THEN NotCalled(Ret(no_value))
        ELSE Called(check_oauth_func(fres, required_scopes),
                    [token |-> h.v.value])

verify_bearer(request, required_scopes, fres) ==
    LET h == get_auth_header_value(request)
    IN  IF h.o = "raise" THEN NotCalled(h)
        ELSE IF h.v.auth_type # PyStr(Bearer) THEN NotCalled(Ret(no_value))
        ELSE Called(check_bearer_token(fres), [token |-> h.v.value])

\* a header that does not split taken for "no header"
verify_basic_lenient(request, required_scopes, fres) ==
    LET h == get_auth_header_value(request)
    IN  IF h.o = "raise" THEN NotCalled(Ret(no_value))
        ELSE IF h.v.auth_type # PyStr(Basic) THEN NotCalled(Ret(no_value))
        ELSE LET d == B64DecodeLatin1(h.v.value.v)
                 up == SplitSep1(d.v, ":")
             IN  IF ~d.ok \/ Len(up) # 2 THEN NotCalled(Raise(InvalidHeader))
                 ELSE Called(check_basic_auth(fres),
                             [username |-> PyStr(up[1]),
                              password |-> PyStr(up[2]),
                              required_scopes |-> required_scopes])

verify_basic(request, required_scopes, fres) ==
    LET h == get_auth_header_value(request)
    IN  IF h.o = "raise" THEN NotCalled(h)
        ELSE IF h.v.auth_type # PyStr(Basic) THEN NotCalled(Ret(no_value))
        ELSE LET d == B64DecodeLatin1(h.v.value.v)
                 up == SplitSep1(d.v, ":")
             IN  IF ~d.ok \/ Len(up) # 2 THEN NotCalled(Raise(InvalidHeader))
                 ELSE Called(check_basic_auth(fres),
                             [username |-> PyStr(up[1]),
                              password |-> PyStr(up[2]),
                              required_scopes |-> required_scopes])

\* the key looked for in the query, then the headers, then the cookies,
\* whatever the definition's location
verify_api_key_any_location(loc, name, request, required_scopes, fres) ==
    LET cookie == get_cookie_value(request.headers["Cookie"], name)
        api_key ==
            IF request.query[name] # PyNone THEN Ret(request.query[name])
            ELSE IF request.headers[name] # PyNone
            THEN Ret(request.headers[name])
            ELSE cookie
    IN  IF loc \notin {"query", "header", "cookie"}
        THEN NotCalled(Ret(no_value))
        ELSE IF api_key.o = "raise" THEN NotCalled(api_key)
        ELSE IF api_key.v = PyNone THEN NotCalled(Ret(no_value))
        ELSE Called(check_api_key(fres),
                    [api_key |-> api_key.v,
                     required_scopes |-> required_scopes])

verify_api_key(loc, name, request, required_scopes, fres) ==
    LET api_key ==
            CASE loc = "query" -> Ret(request.query[name])
              [] loc = "header" -> Ret(request.headers[name])
              [] loc = "cookie" ->
                     get_cookie_value(request.headers["Cookie"], name)
    IN  IF loc \notin {"query", "header", "cookie"}
        THEN NotCalled(Ret(no_value))
        ELSE IF api_key.o = "raise" THEN NotCalled(api_key)
        ELSE IF api_key.v = PyNone THEN NotCalled(Ret(no_value))
        ELSE Called(check_api_key(fres),
                    [api_key |-> api_key.v,
                     required_scopes |-> required_scopes])

\* one entry of auth_funcs applied to (request, required_scopes)
Verifier(f, request, required_scopes, fres) ==
    CASE f.kind = "oauth2" -> verify_oauth(request, required_scopes, fres)
      [] f.kind = "bearer" -> verify_bearer(request, required_scopes, fres)
      [] f.kind = "basic" -> verify_basic(request, required_scopes, fres)
      [] f.kind = "apiKey" ->
             verify_api_key(f.loc, f.name, request, required_scopes, fres)

\* ------------------------------------------------------------------------
\* AsyncSecurityHandlerFactory: the check_* wrappers as coroutines.  A value
\* that is still pending is a coroutine object; awaiting it yields its
\* result, which may be pending again.
\* ------------------------------------------------------------------------
Coroutine(result) == [t |-> "coroutine", result |-> result]
IsCoroutine(value) == value.t = "coroutine"

\* while asyncio.iscoroutine(x): x = yield from x
RECURSIVE Await(_)
Await(x) ==
    IF x.o = "raise" THEN x
    ELSE IF IsCoroutine(x.v) THEN Await(x.v.result)
    ELSE x

\* a null result handed on to the orchestrator
Async_check_bearer_token_null_passes(fres) ==
    LET awaited == Await(fres)
    IN  IF awaited.o = "raise" THEN awaited
        ELSE IF awaited.v = no_value THEN Ret(no_value)
        ELSE Ret(awaited.v)

Async_check_bearer_token(fres) ==
    LET awaited == Await(fres)
    IN  IF awaited.o = "raise" THEN awaited
        ELSE IF awaited.v = no_value THEN Ret(no_value)
        ELSE IF awaited.v = PyNone THEN Raise(InvalidToken)
        ELSE Ret(awaited.v)

Async_check_basic_auth(fres) ==
    LET awaited == Await(fres)
    IN  IF awaited.o = "raise" THEN awaited
        ELSE IF awaited.v = no_value THEN Ret(no_value)
        ELSE IF awaited.v = PyNone THEN Raise(InvalidCredentials)
        ELSE Ret(awaited.v)

\* the null test placed before the sentinel test
Async_check_api_key_null_first(fres) ==
    LET awaited == Await(fres)
    IN  IF awaited.o = "raise" THEN awaited
        ELSE IF awaited.v = PyNone \/ awaited.v = no_value
        THEN Raise(InvalidApiKey)
        ELSE Ret(awaited.v)

Async_check_api_key(fres) ==
    LET awaited == Await(fres)
    IN  IF awaited.o = "raise" THEN awaited
        ELSE IF awaited.v = no_value THEN Ret(no_value)
        ELSE IF awaited.v = PyNone THEN Raise(InvalidApiKey)
        ELSE Ret(awaited.v)

\* what scope_validate_func(required_scopes, token_scopes) returns: the
\* default validate_scope returns the bool itself, a validator written as a
\* coroutine function returns a coroutine of it
PyBool(b) == [t |-> "bool", v |-> b]
ScopeValidators == { "validate_scope", "coroutine" }
scope_validate(scope_validate_func, required_scopes, token_scopes) ==
    LET valid == validate_scope(required_scopes, token_scopes)
    IN  IF valid.o = "raise" THEN valid
        ELSE IF scope_validate_func = "coroutine"
        THEN Ret(Coroutine(Ret(PyBool(valid.v))))
        ELSE Ret(PyBool(valid.v))

Async_check_oauth_func(fres, required_scopes, scope_validate_func) ==
    LET awaited == Await(fres)
    IN  IF awaited.o = "raise" THEN awaited
        ELSE IF awaited.v = no_value THEN Ret(no_value)
        ELSE IF awaited.v = PyNone THEN Raise(InvalidToken)
        ELSE LET info == awaited.v
                 \* Fallback to 'scopes' for backward compatibility
                 token_scopes ==
                     DictGet(info, "scope",
                             DictGet(info, "scopes", PyStr(<< >>)))
                 \* while asyncio.iscoroutine(validation): ...
                 validation ==
                     Await(scope_validate(scope_validate_func, required_scopes,
                                          token_scopes))
             IN  IF validation.o = "raise" THEN validation
                 ELSE IF ~validation.v.v
                 THEN Raise(InsufficientScope(required_scopes, token_scopes))
                 ELSE Ret(info)

\* one entry of auth_funcs built by the asynchronous factory: the verify_*
\* wrappers are inherited, so the credential is extracted as in Verifier
\* (whatever the function answers) and only the check_* coroutine differs
AsyncVerifier(f, request, required_scopes, fres) ==
    LET extracted == Verifier(f, request, required_scopes, Ret(no_value))
    IN  IF ~extracted.called THEN extracted
        ELSE Called(CASE f.kind = "oauth2" ->
                           Async_check_oauth_func(
                               fres, required_scopes,
                               IF "validator" \in DOMAIN f THEN f.validator
                               ELSE "validate_scope")
                      [] f.kind = "bearer" -> Async_check_bearer_token(fres)
                      [] f.kind = "basic" -> Async_check_basic_auth(fres)
                      [] f.kind = "apiKey" -> Async_check_api_key(fres),
                    extracted.args)

\* ------------------------------------------------------------------------
\* Remote token introspection: get_token_info_remote of the three factories.
\* exchange is what the HTTP GET on the token-info endpoint comes to: a
\* response with a status and a JSON body, or no response within the
\* timeout.
\* ------------------------------------------------------------------------
\* requests.Response.ok: raise_for_status() raises for 4xx and 5xx only
Ok(status) == ~(400 <= status /\ status < 600)

\* requests.exceptions.Timeout, raised by session.get(..., timeout=...)
RequestsTimeout == [type |-> "requests.exceptions.Timeout", description |-> ""]
\* asyncio.TimeoutError, raised by awaiting client_session.get(..., timeout=...)
AsyncioTimeoutError == [type |-> "asyncio.TimeoutError", description |-> ""]
\* OAuthResponseProblem(description="Provided token is not valid",
\*                      token_response=token_response)
AioHttpTokenRejected ==
    [type |-> "OAuthResponseProblem",
     description |-> "Provided token is not valid",
     token_response |-> "token_response"]

\* SecurityHandlerFactory.get_token_info_remote(token_info_url, token)
get_token_info_remote(exchange) ==
    IF exchange.t = "timeout" THEN Raise(RequestsTimeout)
    ELSE IF ~Ok(exchange.status) THEN Ret(PyNone)
    ELSE Ret(exchange.json)

\* the status taken for a rejection only from 500 on
Flask_get_token_info_remote_server_errors(exchange) ==
    IF exchange.t = "timeout" THEN Raise(RequestsTimeout)
    ELSE IF exchange.status >= 500 THEN Raise(RemoteTokenRejected)
    ELSE Ret(exchange.json)

\* FlaskSecurityHandlerFactory.get_token_info_remote(token_info_url)(token)
Flask_get_token_info_remote(exchange) ==
    IF exchange.t = "timeout" THEN Raise(RequestsTimeout)
    ELSE IF ~Ok(exchange.status) THEN Raise(RemoteTokenRejected)
    ELSE Ret(exchange.json)

\* AioHttpSecurityHandlerFactory.get_token_info_remote(token_info_url)(token):
\* an `async def`, so the call yields a coroutine; it suspends on the GET and
\* returns token_response.json(), a coroutine again
AioHttp_get_token_info_remote(exchange) ==
    Ret(Coroutine(
        IF exchange.t = "timeout" THEN Raise(AsyncioTimeoutError)
        ELSE IF exchange.status # 200 THEN Raise(AioHttpTokenRejected)
        ELSE Ret(Coroutine(Ret(exchange.json)))))

\* ------------------------------------------------------------------------
\* Inputs: verifier lists, requests, required scopes, and what the
\* configured verification functions return
\* ------------------------------------------------------------------------
Alice == <<"a","l","i","c","e">>
Bob == <<"b","o","b">>
R == <<"r">>
W == <<"w">>
RW == <<"r","w">>

\* the entries verify_security can be handed: one per scheme, the apiKey
\* scheme once per location (the last one is a location the code does not
\* know)
VerifierKinds ==
    { [kind |-> "bearer", loc |-> "", name |-> ""],
      [kind |-> "oauth2", loc |-> "", name |-> ""],
      [kind |-> "basic", loc |-> "", name |-> ""] }
    \cup { [kind |-> "apiKey", loc |-> l, name |-> "api_key"] :
             l \in {"query", "header", "cookie", "body"} }

RECURSIVE SeqsUpTo(_, _)
SeqsUpTo(S, n) ==
    IF n = 0 THEN { << >> }
    ELSE LET shorter == SeqsUpTo(S, n - 1)
         IN  shorter \cup { Append(q, x) : q \in shorter, x \in S }

\* Authorization header values
AuthHeaders ==
    { PyNone,
      PyStr(<< >>),
      PyStr(<<"B","e","a","r","e","r">>),
      PyStr(<<" ">>),
      PyStr(<<"B","e","a","r","e","r"," ","t">>),
      PyStr(<<"b","E","A","R","E","R"," "," ","t"," ","u">>),
      PyStr(<<"B","a","s","i","c"," ","Y","T","p","i">>),
      PyStr(<<"B","A","S","I","C"," ","Y","T","p","i","O","m","M","=">>),
      PyStr(<<"b","a","s","i","c"," ","Y","W","I","=">>),
      PyStr(<<"B","a","s","i","c"," ","Y","W","I">>),
      PyStr(<<"T","o","k","e","n"," ","t">>) }

Pair(key, val) == [kind |-> "pair", key |-> key, legal |-> TRUE, val |-> val]
IllegalPair == [kind |-> "pair", key |-> "a,b", legal |-> FALSE, val |-> <<"1">>]
BareKey == [kind |-> "bare", key |-> "bad", legal |-> TRUE, val |-> << >>]
NoMatch == [kind |-> "nomatch", key |-> "", legal |-> TRUE, val |-> << >>]
CookieHeader(items) == [t |-> "cookie", v |-> items]

\* Cookie header values
CookieHeaders ==
    { CookieHeader(<< Pair("api_key", <<"c">>) >>),
      CookieHeader(<< Pair("other", <<"c">>) >>),
      CookieHeader(<< Pair("api_key", <<"c">>), Pair("api_key", <<"d">>) >>),
      CookieHeader(<< IllegalPair, Pair("api_key", <<"c">>) >>),
      CookieHeader(<< Pair("api_key", <<"c">>), BareKey >>),
      CookieHeader(<< Pair("api_key", <<"c">>), NoMatch, Pair("other", <<"d">>) >>) }

Request(authorization, cookie, hkey, hother, qkey, qother) ==
    [headers |-> [Authorization |-> authorization, Cookie |-> cookie,
                  api_key |-> hkey, other |-> hother],
     query |-> [api_key |-> qkey, other |-> qother]]

\* requests: every Authorization header alone, every API-key carrier alone,
\* and requests that carry several credentials at once
Requests ==
    { Request(a, PyNone, PyNone, PyNone, PyNone, PyNone) : a \in AuthHeaders }
    \cup { Request(PyNone, c, PyNone, PyNone, PyNone, PyNone) :
             c \in CookieHeaders }
    \cup { Request(PyNone, PyNone, PyStr(<<"h">>), PyNone, PyNone, PyNone),
           Request(PyNone, PyNone, PyNone, PyStr(<<"h">>), PyNone, PyNone),
           Request(PyNone, PyNone, PyNone, PyNone, PyStr(<<"q">>), PyNone),
           Request(PyNone, PyNone, PyNone, PyNone, PyNone, PyStr(<<"q">>)) }
    \cup { Request(a, CookieHeader(<< Pair("api_key", <<"c">>) >>),
                   PyStr(<<"h">>), PyNone, PyStr(<<"q">>), PyNone) :
             a \in { PyStr(<<"B","e","a","r","e","r">>),
                     PyStr(<<"B","e","a","r","e","r"," ","t">>),
                     PyStr(<<"B","a","s","i","c"," ","Y","T","p","i">>) } }

\* token infos a verification function may return
EmptyInfo == PyDict(Missing, Missing, Missing, Missing, Missing)
FullInfo ==
    PyDict(PyStr(Alice), PyStr(Bob), PyStr(<<"r"," ","w">>),
           PyList(<< R >>), PyStr(<<"x">>))
LegacyInfo ==
    PyDict(Missing, PyStr(Bob), Missing, PyList(<< W, R >>), Missing)
NarrowInfo ==
    PyDict(PyStr(Alice), Missing, PyStr(<<"r">>), Missing, Missing)
TokenInfos == { EmptyInfo, FullInfo, LegacyInfo, NarrowInfo }

\* outcomes of a verification function: the sentinel, None, a token info, or
\* its own failure
FuncOutcomes ==
    { Ret(no_value), Ret(PyNone), Raise(RemoteTokenRejected) }
    \cup { Ret(ti) : ti \in TokenInfos }

RequiredScopes == { << >>, << R >>, << R, W >> }

\* what the wrapped handler returns
HandlerResponse == PyStr(<<"o","k">>)

\* ------------------------------------------------------------------------
\* verify_security(auth_funcs, required_scopes, function): the wrapper
\* handling one request
\* ------------------------------------------------------------------------
VARIABLES
    auth_funcs,        \* the verifiers, in declaration order
    required_scopes,   \* the operation's required scopes
    request,           \* the inbound request (headers, query)
    pc,                \* "loop": in the for loop, "post": after it, "done"
    i,                 \* index of the verifier the loop is at
    token_info,        \* the wrapper's local token_info
    context,           \* request.context
    calls,             \* verifiers invoked, in order, with their outcomes
    fn_calls,          \* invocations of verification functions, in order
    handler_log,       \* invocations of the wrapped handler
    outcome            \* what the wrapper returned or raised, once done

\* the deployed application: many requests served at once (see "Deployment"
\* below); a single run of the wrapper leaves these alone
VARIABLES
    app,               \* the factory, the operation's security, its wrapper
    tasks,             \* the requests being served, one record each
    heap,              \* the context objects, by identity
    ctx_top            \* flask._request_ctx_stack.top of each worker thread

served == << app, tasks, heap, ctx_top >>

vars == << auth_funcs, required_scopes, request, pc, i, token_info, context,
           calls, fn_calls, handler_log, outcome, served >>

Running == [o |-> "running"]

\* the loop without its break
Breaks_never(value) == FALSE

\* `if token_info is not cls.no_value: break`
Breaks(value) == value # no_value

\* the subject taken from 'uid' first
WriteContext_uid_first(info) ==
    [user |-> DictGet(info, "uid", DictGet(info, "sub", PyNone)),
     token_info |-> info]

\* request.context['user'] = token_info.get('sub', token_info.get('uid'))
\* request.context['token_info'] = token_info
WriteContext(info) ==
    [user |-> DictGet(info, "sub", DictGet(info, "uid", PyNone)),
     token_info |-> info]
EmptyContext == [user |-> Missing, token_info |-> Missing]

\* worker threads of the blocking deployment
Workers == { "w1", "w2" }

\* no application deployed
NotDeployed ==
    /\ app = [state |-> "none"]
    /\ tasks = << >>
    /\ heap = << >>
    /\ ctx_top = [w \in Workers |-> PyNone]

InitWith(lists, requests, scopes) ==
    /\ NotDeployed
    /\ auth_funcs \in lists
    /\ request \in requests
    /\ required_scopes \in scopes
    /\ pc = "loop"
    /\ i = 1
    /\ token_info = PyNone
    /\ context = EmptyContext
    /\ calls = << >>
    /\ fn_calls = << >>
    /\ handler_log = << >>
    /\ outcome = Running

Init == InitWith(SeqsUpTo(VerifierKinds, MaxFuncs), Requests, RequiredScopes)

\* one iteration of `for func in auth_funcs`: token_info = func(request,
\* required_scopes), then break unless it is no_value.  outcomes is what the
\* verification function may answer when the verifier calls it.
CallVerifierWith(outcomes) ==
    /\ pc = "loop"
    /\ i <= Len(auth_funcs)
    /\ \E fres \in outcomes :
         LET r == Verifier(auth_funcs[i], request, required_scopes, fres)
         IN  /\ calls' = Append(calls, [idx |-> i, out |-> r.out])
             /\ fn_calls' =
                  IF r.called
                  THEN Append(fn_calls, [idx |-> i, args |-> r.args, res |-> fres])
                  ELSE fn_calls
             /\ IF r.out.o = "raise"
                THEN /\ pc' = "done"
                     /\ outcome' = r.out
                     /\ UNCHANGED << i, token_info >>
                ELSE /\ token_info' = r.out.v
                     /\ outcome' = outcome
                     /\ IF Breaks(r.out.v)
                        THEN pc' = "post" /\ i' = i
                        ELSE pc' = "loop" /\ i' = i + 1
    /\ UNCHANGED << auth_funcs, required_scopes, request, context, handler_log,
                    served >>

CallVerifier == CallVerifierWith(FuncOutcomes)

\* a request without credentials let through to the handler
Finish_passthrough ==
    /\ \/ pc = "post"
       \/ pc = "loop" /\ i > Len(auth_funcs)
    /\ pc' = "done"
    /\ IF token_info = no_value
       THEN /\ handler_log' =
                 Append(handler_log, [request |-> request, context |-> context])
            /\ outcome' = Ret(HandlerResponse)
            /\ UNCHANGED context
       ELSE IF token_info = PyNone
       THEN /\ outcome' = Raise(AttributeError)
            /\ UNCHANGED << context, handler_log >>
       ELSE /\ context' = WriteContext(token_info)
            /\ handler_log' =
                 Append(handler_log, [request |-> request, context |-> context'])
            /\ outcome' = Ret(HandlerResponse)
    /\ UNCHANGED << auth_funcs, required_scopes, request, i, token_info,
                    calls, fn_calls, served >>

\* the wrapper after the loop: NoAuthorization when token_info is no_value,
\* else write the context and call the handler; token_info.get on None is
\* an AttributeError
Finish ==
    /\ \/ pc = "post"
       \/ pc = "loop" /\ i > Len(auth_funcs)
    /\ pc' = "done"
    /\ IF token_info = no_value
       THEN /\ outcome' = Raise(NoAuthorization)
            /\ UNCHANGED << context, handler_log >>
       ELSE IF token_info = PyNone
       THEN /\ outcome' = Raise(AttributeError)
            /\ UNCHANGED << context, handler_log >>
       ELSE /\ context' = WriteContext(token_info)
            /\ handler_log' =
                 Append(handler_log, [request |-> request, context |-> context'])
            /\ outcome' = Ret(HandlerResponse)
    /\ UNCHANGED << auth_funcs, required_scopes, request, i, token_info,
                    calls, fn_calls, served >>

Next == CallVerifier \/ Finish

Spec == Init /\ [][Next]_vars

\* ------------------------------------------------------------------------
\* Scope-validation runs: one oauth2 verifier, a request with a bearer
\* token, and a token-info function that grants any list of scopes under
\* either key and in either representation
\* ------------------------------------------------------------------------
ScopeNames == { R, W, RW }
ScopeLists == SeqsUpTo(ScopeNames, MaxScopes)

\* ' '.join(l)
RECURSIVE Join(_)
Join(l) ==
    IF l = << >> THEN << >>
    ELSE IF Len(l) = 1 THEN l[1]
    ELSE l[1] \o <<" ">> \o Join(Tail(l))

ScopeReps == { "str", "list" }
ScopeValue(rp, g) ==
    IF rp = "list" THEN PyList(g)
    ELSE IF rp = "tuple" THEN PyTuple(g)
    ELSE PyStr(Join(g))

\* the token info that grants g: under 'sub'/'scope' (modern), under
\* 'uid'/'scopes' (legacy), under 'scope' next to a 'scopes' that grants
\* everything (both), or with no scope key at all (none, which grants
\* nothing)
ScopeForms == { "modern", "legacy", "both", "none" }
ScopeInfo(form, rp, g) ==
    CASE form = "modern" ->
           PyDict(PyStr(Alice), Missing, ScopeValue(rp, g), Missing, Missing)
      [] form = "legacy" ->
           PyDict(Missing, PyStr(Alice), Missing, ScopeValue(rp, g), Missing)
      [] form = "both" ->
           PyDict(PyStr(Alice), PyStr(Bob), ScopeValue(rp, g),
                  PyList(<< R, W, RW >>), Missing)
      [] form = "none" ->
           PyDict(PyStr(Alice), Missing, Missing, Missing, Missing)

ScopeOutcomes ==
    { Ret(ScopeInfo(form, rp, g)) :
        form \in ScopeForms, rp \in ScopeReps, g \in ScopeLists }

BearerRequest ==
    Request(PyStr(<<"B","e","a","r","e","r"," ","t">>),
            PyNone, PyNone, PyNone, PyNone, PyNone)

InitScope ==
    InitWith({ << [kind |-> "oauth2", loc |-> "", name |-> ""] >> },
             { BearerRequest }, ScopeLists)

CallVerifierScope == CallVerifierWith(ScopeOutcomes)

NextScope == CallVerifierScope \/ Finish

SpecScope == InitScope /\ [][NextScope]_vars

\* Scope-representation runs: the same, with the granted scopes also as a
\* tuple, a sequence that is not a list
SequenceReps == { "str", "list", "tuple" }

SequenceOutcomes ==
    { Ret(ScopeInfo(form, rp, g)) :
        form \in { "modern", "legacy" }, rp \in SequenceReps,
        g \in ScopeLists }

InitSequence ==
    InitWith({ << [kind |-> "oauth2", loc |-> "", name |-> ""] >> },
             { BearerRequest }, ScopeLists)

CallVerifierSequence == CallVerifierWith(SequenceOutcomes)

NextSequence == CallVerifierSequence \/ Finish

SpecSequence == InitSequence /\ [][NextSequence]_vars

\* ------------------------------------------------------------------------
\* Basic-auth runs: requests with a Basic Authorization header (and one with
\* a bearer token), handled by lists of basic, bearer and API-key verifiers
\* ------------------------------------------------------------------------
Secret == <<"s","e","c","r","e","t">>
\* Basic headers: alice:secret, a:b:c, ab, ab without its padding, a lone
\* colon, a byte above 127 before the colon, an empty password, and a:b
\* followed by a character outside the base64 alphabet
BasicHeaders ==
    { PyStr(<<"B","a","s","i","c"," ","Y","W","x","p","Y","2","U","6","c","2","V","j","c","m","V","0">>),
      PyStr(<<"B","A","S","I","C"," ","Y","T","p","i","O","m","M","=">>),
      PyStr(<<"b","a","s","i","c"," ","Y","W","I","=">>),
      PyStr(<<"B","a","s","i","c"," ","Y","W","I">>),
      PyStr(<<"B","a","s","i","c"," ","O","g","=","=">>),
      PyStr(<<"B","a","s","i","c"," ","6","T","p","4">>),
      PyStr(<<"B","a","s","i","c"," ","Y","T","o","=">>),
      PyStr(<<"B","a","s","i","c"," ","Y","T","p","i","!">>) }
BasicRequests ==
    { Request(a, PyNone, PyNone, PyNone, PyNone, PyNone) : a \in BasicHeaders }
    \cup { BearerRequest }
BasicKinds ==
    { k \in VerifierKinds :
        k.kind \in { "basic", "bearer" } \/ k.loc = "query" }
\* {'sub': 'alice'}
SubAlice == PyDict(PyStr(Alice), Missing, Missing, Missing, Missing)
BasicOutcomes == { Ret(no_value), Ret(PyNone), Ret(SubAlice), Ret(LegacyInfo) }

InitBasic ==
    InitWith(SeqsUpTo(BasicKinds, MaxFuncs), BasicRequests, RequiredScopes)

CallVerifierBasic == CallVerifierWith(BasicOutcomes)

NextBasic == CallVerifierBasic \/ Finish

SpecBasic == InitBasic /\ [][NextBasic]_vars

\* ------------------------------------------------------------------------
\* Deployment: an application serving several requests at once
\* ------------------------------------------------------------------------
\* what the token-info endpoint may answer
Statuses == { 200, 201, 204, 302, 401, 500 }
HttpResponse(status, json) ==
    [t |-> "response", status |-> status, json |-> json]
HttpTimeout == [t |-> "timeout", status |-> -1, json |-> PyNone]
Exchanges ==
    { HttpResponse(st, FullInfo) : st \in Statuses } \cup { HttpTimeout }



\* the four factories; the last two run the wrapper as a coroutine
Factories ==
    { "SecurityHandlerFactory", "FlaskSecurityHandlerFactory",
      "AsyncSecurityHandlerFactory", "AioHttpSecurityHandlerFactory" }
IsAsync(factory) ==
    factory \in { "AsyncSecurityHandlerFactory", "AioHttpSecurityHandlerFactory" }

\* the remote introspector each factory binds to a token-info URL
Introspect(factory, exchange) ==
    CASE factory = "FlaskSecurityHandlerFactory" ->
           Flask_get_token_info_remote(exchange)
      [] factory = "AioHttpSecurityHandlerFactory" ->
           AioHttp_get_token_info_remote(exchange)
      [] OTHER -> get_token_info_remote(exchange)

\* entries of auth_funcs with the verification function they were built on:
\* a function of the application (local) or the introspector (remote)
OAuth2Remote == [kind |-> "oauth2", loc |-> "", name |-> "", func |-> "remote"]
BearerLocal == [kind |-> "bearer", loc |-> "", name |-> "", func |-> "local"]
ApiKeyQuery ==
    [kind |-> "apiKey", loc |-> "query", name |-> "api_key", func |-> "local"]

\* an oauth2 entry built on a function of the application and on a scope
\* validator that is a coroutine function (x-scopeValidateFunc)
OAuth2Validated ==
    [kind |-> "oauth2", loc |-> "", name |-> "", func |-> "local",
     validator |-> "coroutine"]

LocalAnswer(res) == [t |-> "local", res |-> res]
\* what a call of f's verification function may be answered with
Answers(f, outcomes) ==
    IF f.func = "remote" THEN Exchanges
    ELSE { LocalAnswer(res) : res \in outcomes }
\* the result of the call, as the verifier receives it
FunctionResult(factory, f, answer) ==
    IF f.func = "remote" THEN Introspect(factory, answer) ELSE answer.res

\* a value that takes n awaits to resolve to x
RECURSIVE Pending(_, _)
Pending(x, n) == IF n = 0 THEN x ELSE Ret(Coroutine(Pending(x, n - 1)))

\* --- route registration -------------------------------------------------
\* a function reference in a security definition or in the environment:
\* absent, empty, the name of a function that exists, the name of none
Importable == PyStr(<<"a","p","p",".","a","u","t","h">>)
Unimportable == PyStr(<<"a","p","p",".","n","o","n","e">>)
FuncRefs == { PyNone, PyStr(<< >>), Importable, Unimportable }

\* truth value of None and of a str
Truthy(value) == value # PyNone /\ value # PyStr(<< >>)

ConfigurationError ==
    [type |-> "ConfigurationError", description |-> "unresolvable function"]
\* connexion.utils.get_function_from_name(function_name)
get_function_from_name(function_name) ==
    IF function_name = Importable
    THEN Ret([t |-> "function", v |-> function_name.v])
    ELSE Raise(ConfigurationError)

\* the environment consulted before the security definition
_get_function_environ_first(definition_value, environ_value, default) ==
    LET func == IF Truthy(environ_value) THEN environ_value
                ELSE definition_value
    IN  IF Truthy(func) THEN get_function_from_name(func) ELSE Ret(default)

\* _get_function(security_definition, security_definition_key, environ_key,
\* default): the two arguments are security_definition.get(key) and
\* os.environ.get(environ_key)
_get_function(definition_value, environ_value, default) ==
    LET func == IF Truthy(definition_value) THEN definition_value
                ELSE environ_value
    IN  IF Truthy(func) THEN get_function_from_name(func) ELSE Ret(default)

\* the interpreter's error for a name that is not bound
NameError == [type |-> "NameError", description |-> "name 'cls' is not defined"]
\* a token-info URL in a security definition or in the environment
TokenInfoUrl == PyStr(<<"h","t","t","p","s",":","/","/","t">>)
UrlRefs == { PyNone, PyStr(<< >>), TokenInfoUrl }
\* cls.validate_scope, the default of get_scope_validate_func
ValidateScopeFunc == [t |-> "function", v |-> <<"validate_scope">>]

\* get_tokeninfo_func(security_definition): the function named by
\* x-tokenInfoFunc or TOKENINFO_FUNC; else, with a URL under x-tokenInfoUrl
\* or TOKENINFO_URL, line 51 builds the partial from `cls`, a name this
\* instance method does not bind; else None
get_tokeninfo_func(func_def, func_env, url_def, url_env) ==
    LET token_info_func == _get_function(func_def, func_env, PyNone)
        token_info_url == IF Truthy(url_def) THEN url_def ELSE url_env
    IN  IF token_info_func.o = "raise" THEN token_info_func
        ELSE IF token_info_func.v # PyNone THEN token_info_func
        ELSE IF Truthy(token_info_url) THEN Raise(NameError)
        ELSE Ret(PyNone)

\* get_scope_validate_func, get_basicinfo_func, get_apikeyinfo_func,
\* get_bearerinfo_func
get_scope_validate_func(definition_value, environ_value) ==
    _get_function(definition_value, environ_value, ValidateScopeFunc)
get_basicinfo_func(definition_value, environ_value) ==
    _get_function(definition_value, environ_value, PyNone)
get_apikeyinfo_func(definition_value, environ_value) ==
    _get_function(definition_value, environ_value, PyNone)
get_bearerinfo_func(definition_value, environ_value) ==
    _get_function(definition_value, environ_value, PyNone)

\* ConnexionException("Error in security definitions")
SecurityDefinitionsError ==
    [type |-> "ConnexionException",
     description |-> "Error in security definitions"]

\* --- the requests ---------------------------------------------------------
Ref(n) == [t |-> "ref", id |-> n]

NewTask(factory, req) ==
    [factory |-> factory, request |-> req, pc |-> "new", i |-> 1,
     token_info |-> PyNone, pending |-> PyNone, context |-> PyNone,
     contexts |-> << >>, worker |-> "", trace |-> << >>,
     handler_log |-> << >>, outcome |-> Running, response |-> PyNone]

Started(k, args, answer, via) ==
    [ev |-> "start", idx |-> k, args |-> args, session |-> via,
     http |-> IF answer.t = "local" THEN "" ELSE answer.t,
     status |-> IF answer.t = "local" THEN 0 ELSE answer.status]
Returned(k, res) == [ev |-> "return", idx |-> k, res |-> res]
Result(k, out) == [ev |-> "result", idx |-> k, out |-> out]

\* --- the request boundary ---------------------------------------------------
\* connexion.exceptions: OAuthResponseProblem derives from OAuthProblem
IsOAuthProblem(e) == e.type \in { "OAuthProblem", "OAuthResponseProblem" }
IsOAuthScopeProblem(e) == e.type = "OAuthScopeProblem"
\* connexion.exceptions: OAuthProblem is an Unauthorized, OAuthScopeProblem a
\* Forbidden
code(e) == IF IsOAuthScopeProblem(e) THEN 403 ELSE 401
\* Jsonifier.dumps(data).encode(): the JSON document of data
dumps(data) == [t |-> "json", v |-> data]
\* web.Response(status, body, content_type)
WebResponse(status, body, content_type) ==
    [t |-> "web.Response", status |-> status, body |-> body,
     content_type |-> content_type]

\* scope failures left to whoever is above the middleware
oauth_problem_middleware_scope_uncaught(handled) ==
    IF handled.o = "raise" /\ IsOAuthProblem(handled.e)
    THEN Ret(WebResponse(code(handled.e), dumps(handled.e.description),
                         "application/problem+json"))
    ELSE handled

\* oauth_problem_middleware(request, handler); handled is what
\* `yield from handler(request)` came to
oauth_problem_middleware(handled) ==
    IF handled.o = "raise"
       /\ (IsOAuthProblem(handled.e) \/ IsOAuthScopeProblem(handled.e))
    THEN Ret(WebResponse(code(handled.e), dumps(handled.e.description),
                         "application/problem+json"))
    ELSE handled

\* a request that has ended leaves through the middleware of the aiohttp
\* application, which is the one that runs the coroutine wrappers
Boundary(t) ==
    IF t.pc = "done" /\ IsAsync(t.factory)
    THEN [t EXCEPT !.response = oauth_problem_middleware(t.outcome)]
    ELSE t

\* --- the HTTP sessions of the introspectors ---------------------------------
\* `session = requests.Session()` at the top of security_handler_factory.py
\* and of flask_security_handler_factory.py: made when the module is
\* imported
RequestsSession == [t |-> "requests.Session", id |-> 0]

\* a session made for every introspection
client_session_per_call(current, created) ==
    [t |-> "aiohttp.ClientSession", id |-> created + 1]

\* `if not self.client_session: self.client_session = aiohttp.ClientSession()`
\* created counts the ClientSession objects the factory has made
client_session(current, created) ==
    IF current = PyNone
    THEN [t |-> "aiohttp.ClientSession", id |-> created + 1]
    ELSE current

\* the factory after the first lines of its introspector ran
Introspecting(a, factory, f) ==
    IF f.func = "remote" /\ factory = "AioHttpSecurityHandlerFactory"
    THEN LET used == client_session(a.client_session, a.created)
         IN  [a EXCEPT !.client_session = used,
                       !.created = IF used = a.client_session THEN @ ELSE @ + 1]
    ELSE a

\* the session the GET of the introspector goes through
SessionUsed(a, factory, f) ==
    IF f.func # "remote" THEN PyNone
    ELSE IF factory = "AioHttpSecurityHandlerFactory" THEN a.client_session
    ELSE a.session

\* the loop body after `token_info = func(request, required_scopes)` has its
\* final value: a failure ends the request, anything but no_value breaks
Settle(t, events, out) ==
    LET logged == [t EXCEPT !.trace = @ \o events, !.pending = PyNone]
    IN  IF out.o = "raise"
        THEN Boundary([logged EXCEPT !.pc = "done", !.outcome = out])
        ELSE [logged EXCEPT !.token_info = out.v,
                            !.pc = IF Breaks(out.v) THEN "post" ELSE "loop",
                            !.i = IF Breaks(out.v) THEN @ ELSE @ + 1]

\* the pending result left behind and the loop gone on to the next verifier
Suspend_not_awaited(t, pending, started) ==
    [t EXCEPT !.i = @ + 1, !.trace = Append(@, started)]

\* `token_info = yield from token_info` on a result that is pending: the
\* request is suspended in its k-th verifier until the event loop resumes it
Suspend(t, pending, started) ==
    [t EXCEPT !.pc = "await", !.pending = pending,
              !.trace = Append(@, started)]

\* Flask pops the request context of a worker when its request has ended
Popped(t) ==
    IF t.pc = "done" /\ ~IsAsync(t.factory)
    THEN [ctx_top EXCEPT ![t.worker] = PyNone]
    ELSE ctx_top

single == << auth_funcs, required_scopes, request, pc, i, token_info, context,
             calls, fn_calls, handler_log, outcome >>

\* one dict kept for all requests
context_dict_shared(objects) == Ref(1)

\* `context_dict = {}`: an object that did not exist before
context_dict(objects) == Ref(Len(objects) + 1)

Store(objects, ref, value) ==
    IF ref.id > Len(objects) THEN Append(objects, value)
    ELSE [objects EXCEPT ![ref.id] = value]

\* connexion.apis.flask_api._get_context(), called on the worker's thread
_get_context(worker) == heap[ctx_top[worker].id]

\* get_function_from_name and the get_*_func lookups, at route registration
Register ==
    /\ app.state = "registering"
    /\ LET resolved == _get_function(app.definition, app.environ, PyNone)
       IN  app' = IF resolved.o = "raise"
                  THEN [app EXCEPT !.state = "failed", !.error = resolved.e]
                  ELSE [app EXCEPT !.state = "serving", !.func = resolved.v]
    /\ UNCHANGED << tasks, heap, ctx_top, single >>

\* FlaskApi.get_request / AioHttpApi.get_request: the ConnexionRequest of an
\* incoming request and its context
get_request(rid) ==
    /\ app.state = "serving"
    /\ tasks[rid].pc = "new"
    /\ LET ref == context_dict(heap)
       IN  /\ heap' = Store(heap, ref, EmptyContext)
           /\ IF IsAsync(tasks[rid].factory)
              THEN /\ tasks' = [tasks EXCEPT ![rid] =
                          [@ EXCEPT !.pc = "loop", !.context = ref,
                                    !.contexts = Append(@, ref),
                                    !.worker = "loop"]]
                   /\ UNCHANGED ctx_top
              ELSE \E w \in Workers :
                     /\ ctx_top[w] = PyNone
                     /\ ctx_top' = [ctx_top EXCEPT ![w] = ref]
                     /\ tasks' = [tasks EXCEPT ![rid] =
                          [@ EXCEPT !.pc = "loop", !.context = ref,
                                    !.contexts = Append(@, ref),
                                    !.worker = w]]
    /\ UNCHANGED << app, single >>

\* the wrapper security_deny returns
deny(rid) ==
    /\ app.wrapper = "security_deny"
    /\ tasks[rid].pc = "loop"
    /\ LET t == Boundary([tasks[rid] EXCEPT
                             !.pc = "done",
                             !.outcome = Raise(SecurityDefinitionsError)])
       IN  /\ tasks' = [tasks EXCEPT ![rid] = t]
           /\ ctx_top' = Popped(t)
    /\ UNCHANGED << app, heap, single >>

\* SecurityHandlerFactory.verify_security, one iteration of the loop
CallVerifierTask(rid, outcomes) ==
    /\ app.wrapper = "verify_security"
    /\ ~IsAsync(tasks[rid].factory)
    /\ tasks[rid].pc = "loop"
    /\ tasks[rid].i <= Len(app.auth_funcs)
    /\ LET t == tasks[rid]
           f == app.auth_funcs[t.i]
       IN  \E answer \in Answers(f, outcomes) :
             LET fres == FunctionResult(t.factory, f, answer)
                 r == Verifier(f, t.request, app.required_scopes, fres)
                 events ==
                     IF r.called
                     THEN << Started(t.i, r.args, answer,
                                     SessionUsed(app, t.factory, f)),
                             Returned(t.i, fres), Result(t.i, r.out) >>
                     ELSE << Result(t.i, r.out) >>
                 settled == Settle(t, events, r.out)
             IN  /\ tasks' = [tasks EXCEPT ![rid] = settled]
                 /\ ctx_top' = Popped(settled)
    /\ UNCHANGED << app, heap, single >>

\* AsyncSecurityHandlerFactory.verify_security, one iteration of the loop up
\* to the first await that suspends
AsyncCallVerifier(rid, outcomes) ==
    /\ app.wrapper = "verify_security"
    /\ IsAsync(tasks[rid].factory)
    /\ tasks[rid].pc = "loop"
    /\ tasks[rid].i <= Len(app.auth_funcs)
    /\ LET t == tasks[rid]
           f == app.auth_funcs[t.i]
       IN  \E answer \in Answers(f, outcomes) :
             LET fres == FunctionResult(t.factory, f, answer)
                 \* r, factory and started are bound to their one value
             IN  \E r \in { AsyncVerifier(f, t.request, app.required_scopes,
                                           fres) } :
                 \E factory \in { IF r.called
                                   THEN Introspecting(app, t.factory, f)
                                   ELSE app } :
                 \E started \in { Started(t.i, r.args, answer,
                                           SessionUsed(factory, t.factory, f)) } :
                 /\ tasks' = [tasks EXCEPT ![rid] =
                       IF ~r.called
                       THEN Settle(t, << Result(t.i, r.out) >>, r.out)
                       ELSE IF fres.o = "return" /\ IsCoroutine(fres.v)
                       THEN Suspend(t, fres.v, started)
                       ELSE Settle(t, << started, Returned(t.i, fres),
                                         Result(t.i, r.out) >>, r.out)]
                 /\ app' = factory
    /\ UNCHANGED << heap, ctx_top, single >>

\* a single `yield from` in place of the loop: what the first await yields is
\* taken for the result
Resume_once(rid) ==
    /\ tasks[rid].pc = "await"
    /\ LET t == tasks[rid]
           f == app.auth_funcs[t.i]
           x == t.pending.result
           r == AsyncVerifier(f, t.request, app.required_scopes, x)
           out == IF x.o = "return" /\ IsCoroutine(x.v)
                  THEN IF f.kind = "oauth2" THEN Raise(AttributeError) ELSE x
                  ELSE r.out
       IN  tasks' = [tasks EXCEPT ![rid] =
               Settle(t, << Returned(t.i, x), Result(t.i, out) >>, out)]
    /\ UNCHANGED << app, heap, ctx_top, single >>

\* the event loop resumes a request suspended in
\* `while asyncio.iscoroutine(token_info): token_info = yield from token_info`
Resume(rid) ==
    /\ tasks[rid].pc = "await"
    /\ LET t == tasks[rid]
           f == app.auth_funcs[t.i]
           x == t.pending.result
       IN  tasks' = [tasks EXCEPT ![rid] =
               IF x.o = "return" /\ IsCoroutine(x.v)
               THEN [t EXCEPT !.pending = x.v]
               ELSE LET r == AsyncVerifier(f, t.request, app.required_scopes, x)
                    IN  Settle(t, << Returned(t.i, x), Result(t.i, r.out) >>,
                               r.out)]
    /\ UNCHANGED << app, heap, ctx_top, single >>

\* request.context['token_info'] assigned before token_info is tested
FinishTask_context_first(rid) ==
    /\ app.wrapper = "verify_security"
    /\ \/ tasks[rid].pc = "post"
       \/ tasks[rid].pc = "loop" /\ tasks[rid].i > Len(app.auth_funcs)
    /\ LET t == tasks[rid]
       IN  IF t.token_info = no_value \/ t.token_info = PyNone
           THEN LET failed ==
                      Boundary([t EXCEPT !.pc = "done",
                                         !.outcome =
                                             IF t.token_info = no_value
                                             THEN Raise(NoAuthorization)
                                             ELSE Raise(AttributeError)])
                IN  /\ tasks' = [tasks EXCEPT ![rid] = failed]
                    /\ ctx_top' = Popped(failed)
                    /\ heap' = Store(heap, t.context,
                                     [EmptyContext EXCEPT
                                        !.token_info = t.token_info])
           ELSE /\ heap' = Store(heap, t.context, WriteContext(t.token_info))
                /\ tasks' = [tasks EXCEPT ![rid] = [t EXCEPT !.pc = "handler"]]
                /\ ctx_top' = ctx_top
    /\ UNCHANGED << app, single >>

\* verify_security after the loop, up to the call of the handler
FinishTask(rid) ==
    /\ app.wrapper = "verify_security"
    /\ \/ tasks[rid].pc = "post"
       \/ tasks[rid].pc = "loop" /\ tasks[rid].i > Len(app.auth_funcs)
    /\ LET t == tasks[rid]
       IN  IF t.token_info = no_value \/ t.token_info = PyNone
           THEN LET failed ==
                      Boundary([t EXCEPT !.pc = "done",
                                         !.outcome =
                                             IF t.token_info = no_value
                                             THEN Raise(NoAuthorization)
                                             ELSE Raise(AttributeError)])
                IN  /\ tasks' = [tasks EXCEPT ![rid] = failed]
                    /\ ctx_top' = Popped(failed)
                    /\ heap' = heap
           ELSE /\ heap' = Store(heap, t.context, WriteContext(t.token_info))
                /\ tasks' = [tasks EXCEPT ![rid] = [t EXCEPT !.pc = "handler"]]
                /\ ctx_top' = ctx_top
    /\ UNCHANGED << app, single >>

\* the handler called, and called again for its result
CallHandler_twice(rid) ==
    /\ tasks[rid].pc = "handler"
    /\ LET t == tasks[rid]
           read == IF IsAsync(t.factory) THEN heap[t.context.id]
                   ELSE _get_context(t.worker)
           ended == Boundary([t EXCEPT
                                 !.pc = "done",
                                 !.handler_log = @ \o << [context |-> read],
                                                         [context |-> read] >>,
                                 !.outcome = Ret(HandlerResponse)])
       IN  /\ tasks' = [tasks EXCEPT ![rid] = ended]
           /\ ctx_top' = Popped(ended)
    /\ UNCHANGED << app, heap, single >>

\* function(request): the handler reads the context, in Flask through the
\* `context` proxy of its thread, in aiohttp through the request
CallHandler(rid) ==
    /\ tasks[rid].pc = "handler"
    /\ LET t == tasks[rid]
           read == IF IsAsync(t.factory) THEN heap[t.context.id]
                   ELSE _get_context(t.worker)
           ended == Boundary([t EXCEPT
                                 !.pc = "done",
                                 !.handler_log = Append(@, [context |-> read]),
                                 !.outcome = Ret(HandlerResponse)])
       IN  /\ tasks' = [tasks EXCEPT ![rid] = ended]
           /\ ctx_top' = Popped(ended)
    /\ UNCHANGED << app, heap, single >>

\* --- resolution of the verification functions -------------------------------
\* the keys of a security definition that name a function
FunctionKeys ==
    { "x-tokenInfoFunc", "x-scopeValidateFunc", "x-basicInfoFunc",
      "x-apikeyInfoFunc", "x-bearerInfoFunc" }

\* one get_*_func call on a security definition and an environment
Resolve ==
    /\ app.state = "resolving"
    /\ app' = [app EXCEPT
                 !.state = "resolved",
                 !.resolved =
                     CASE app.key = "x-tokenInfoFunc" ->
                            get_tokeninfo_func(app.definition, app.environ,
                                               app.url_definition,
                                               app.url_environ)
                       [] app.key = "x-scopeValidateFunc" ->
                            get_scope_validate_func(app.definition, app.environ)
                       [] app.key = "x-basicInfoFunc" ->
                            get_basicinfo_func(app.definition, app.environ)
                       [] app.key = "x-apikeyInfoFunc" ->
                            get_apikeyinfo_func(app.definition, app.environ)
                       [] app.key = "x-bearerInfoFunc" ->
                            get_bearerinfo_func(app.definition, app.environ)]
    /\ UNCHANGED << tasks, heap, ctx_top, single >>

\* --- specifications -------------------------------------------------------
NewApp(funcs, scopes, wrapper, definition_value, environ_value) ==
    [state |-> "registering", auth_funcs |-> funcs, required_scopes |-> scopes,
     wrapper |-> wrapper, definition |-> definition_value,
     environ |-> environ_value, func |-> PyNone, error |-> PyNone,
     session |-> RequestsSession, client_session |-> PyNone, created |-> 0]

\* the wrapper of a single request is not running
NotSingle ==
    /\ auth_funcs = << >>
    /\ request = PyNone
    /\ required_scopes = << >>
    /\ pc = "done"
    /\ i = 1
    /\ token_info = PyNone
    /\ context = EmptyContext
    /\ calls = << >>
    /\ fn_calls = << >>
    /\ handler_log = << >>
    /\ outcome = Running

\* deployments: the applications with the requests each is sent
InitServeWith(deployments) ==
    /\ NotSingle
    /\ \E d \in deployments : app = d.app /\ tasks = d.tasks
    /\ heap = << >>
    /\ ctx_top = [w \in Workers |-> PyNone]

\* results that take up to MaxAwaits awaits to resolve
AsyncOutcomes(finals) == { Pending(x, n) : x \in finals, n \in 0..MaxAwaits }

RequestIds == { "r1", "r2" }

\* an application of one factory serving two requests at once: operations
\* secured by the remote introspector and by local functions, and operations
\* whose function references resolve, are missing or name nothing
ServeFactories ==
    { "SecurityHandlerFactory", "FlaskSecurityHandlerFactory",
      "AioHttpSecurityHandlerFactory" }
ServeLists ==
    { << OAuth2Remote >>, << OAuth2Remote, ApiKeyQuery >>,
      << ApiKeyQuery, OAuth2Remote >>, << BearerLocal, ApiKeyQuery >> }
ServeRequests ==
    { BearerRequest,
      Request(PyStr(<<"B","e","a","r","e","r"," ","t">>), PyNone, PyNone,
              PyNone, PyStr(<<"q">>), PyNone),
      Request(PyNone, PyNone, PyNone, PyNone, PyNone, PyNone) }
ServeOutcomes ==
    { Ret(no_value), Ret(FullInfo), Ret(NarrowInfo),
      Raise(RemoteTokenRejected) }
Serving(factory, requests) ==
    [rid \in RequestIds |-> NewTask(factory, requests[rid])]
ServeDeployments ==
    { [app |-> NewApp(l, << R >>, "verify_security", Importable, PyNone),
       tasks |-> Serving(fac, rq)] :
        l \in ServeLists, fac \in ServeFactories,
        rq \in [RequestIds -> ServeRequests] }
    \cup { [app |-> NewApp(<< BearerLocal >>, << >>, w, d, e),
            tasks |-> Serving(fac, [rid \in RequestIds |-> BearerRequest])] :
             w \in { "verify_security", "security_deny" },
             d \in FuncRefs, e \in FuncRefs,
             fac \in { "FlaskSecurityHandlerFactory",
                       "AioHttpSecurityHandlerFactory" } }
    \cup { [app |-> NewApp(<< OAuth2Validated >>, << R, W >>,
                           "verify_security", Importable, PyNone),
            tasks |-> Serving("AioHttpSecurityHandlerFactory",
                              [rid \in RequestIds |-> BearerRequest])] }

InitServe == InitServeWith(ServeDeployments)

\* every function key, with its reference in the definition and in the
\* environment absent, empty, resolvable or not; for x-tokenInfoFunc also
\* the token-info URL of the definition and of the environment
InitResolve ==
    /\ NotSingle
    /\ tasks = << >>
    /\ heap = << >>
    /\ ctx_top = [w \in Workers |-> PyNone]
    /\ \E key \in FunctionKeys, d \in FuncRefs, e \in FuncRefs,
          ud \in UrlRefs, ue \in UrlRefs :
         /\ key # "x-tokenInfoFunc" => ud = PyNone /\ ue = PyNone
         /\ app = [state |-> "resolving", key |-> key, definition |-> d,
                   environ |-> e, url_definition |-> ud, url_environ |-> ue,
                   resolved |-> PyNone]

NextResolve == Resolve

SpecResolve == InitResolve /\ [][NextResolve]_vars

NextServe ==
    \/ Register
    \/ \E rid \in RequestIds :
         \/ get_request(rid)
         \/ deny(rid)
         \/ CallVerifierTask(rid, ServeOutcomes)
         \/ AsyncCallVerifier(rid, AsyncOutcomes(ServeOutcomes))
         \/ Resume(rid)
         \/ FinishTask(rid)
         \/ CallHandler(rid)

SpecServe == InitServe /\ [][NextServe]_vars

\* the same operation and the same request handled by the synchronous and by
\* the asynchronous factory, side by side
LocalKinds ==
    { [kind |-> k.kind, loc |-> k.loc, name |-> k.name, func |-> "local"] :
        k \in VerifierKinds }
Twins(req) ==
    [rid \in RequestIds |->
        NewTask(IF rid = "r1" THEN "SecurityHandlerFactory"
                ELSE "AsyncSecurityHandlerFactory", req)]

\* every verifier alone, and every pair of a bearer, a basic and a query
\* API-key verifier
EquivLists ==
    { << >> } \cup { << k >> : k \in LocalKinds }
    \cup { << k1, k2 >> :
             k1 \in { k \in LocalKinds : k.loc \in { "", "query" } },
             k2 \in { k \in LocalKinds :
                        k.kind \in { "bearer", "basic" } \/ k.loc = "query" } }

InitEquiv ==
    InitServeWith({ [app |-> NewApp(l, sc, "verify_security", Importable,
                                    PyNone),
                     tasks |-> Twins(req)] :
                      l \in EquivLists, sc \in { << >>, << R, W >> },
                      req \in Requests })

\* both factories are handed the same verification functions: what the
\* function of the verifier a twin is at answers is what it answered (or is
\* about to answer) the other twin, if that one got there first
Agreed(rid, finals) ==
    LET other == tasks[CHOOSE o \in RequestIds : o # rid]
        k == tasks[rid].i
        answered ==
            { other.trace[j].res :
                j \in { n \in 1..Len(other.trace) :
                          other.trace[n].ev = "return"
                          /\ other.trace[n].idx = k } }
            \cup IF other.pc = "await" /\ other.i = k
                 THEN { Await(Ret(other.pending)) }
                 ELSE { }
    IN  IF answered = { } THEN finals ELSE answered

NextEquiv ==
    \/ Register
    \/ \E rid \in RequestIds :
         \/ get_request(rid)
         \/ CallVerifierTask(rid, Agreed(rid, FuncOutcomes))
         \/ AsyncCallVerifier(rid, AsyncOutcomes(Agreed(rid, FuncOutcomes)))
         \/ Resume(rid)
         \/ FinishTask(rid)
         \/ CallHandler(rid)

SpecEquiv == InitEquiv /\ [][NextEquiv]_vars

\* the two factories under a scheduler that does not idle while a step can be
\* taken: a worker thread runs on, and the event loop resumes a coroutine
\* whose awaited result is ready.  Operations with no verifier, with one and
\* with two API-key verifiers, whose functions answer at once or after up to
\* MaxAwaits awaits.
ApiKeyHeader ==
    [kind |-> "apiKey", loc |-> "header", name |-> "api_key", func |-> "local"]
TerminateLists ==
    { << >>, << ApiKeyQuery >>, << ApiKeyQuery, ApiKeyHeader >> }
TerminateRequests ==
    { Request(PyNone, PyNone, PyNone, PyNone, PyStr(<<"q">>), PyNone),
      Request(PyNone, PyNone, PyStr(<<"h">>), PyNone, PyNone, PyNone),
      Request(PyNone, PyNone, PyNone, PyNone, PyNone, PyNone) }

InitTerminate ==
    InitServeWith({ [app |-> NewApp(l, << R, W >>, "verify_security",
                                    Importable, PyNone),
                     tasks |-> Twins(req)] :
                      l \in TerminateLists, req \in TerminateRequests })

Scheduled == WF_vars(NextEquiv)

SpecTerminate == InitTerminate /\ [][NextEquiv]_vars /\ Scheduled

\* ------------------------------------------------------------------------
\* Properties
\* ------------------------------------------------------------------------
LastCall == calls[Len(calls)]
\* the verification function of the k-th verifier was invoked
FnCalled(k) == \E j \in 1..Len(fn_calls) : fn_calls[j].idx = k
\* the request carries the credential the verifier f looks for, so that f
\* would invoke its verification function
Carries(f) == Verifier(f, request, required_scopes, Ret(EmptyInfo)).called

\* C1: the verifiers are invoked in declaration order, each verifier invoked
\* before the last one returned NoValue, the loop stops at the first verifier
\* whose result is not NoValue (no verifier after it is invoked, none before
\* it is skipped), and the token info written to the context is the one that
\* verifier returned.
C1_ShortCircuit ==
    /\ \A k \in 1..Len(calls) : calls[k].idx = k
    /\ \A k \in 1..Len(calls) : k < Len(calls) => calls[k].out = Ret(no_value)
    /\ pc = "done" /\ Len(calls) < Len(auth_funcs)
         => calls # << >> /\ LastCall.out # Ret(no_value)
    /\ context.token_info # Missing
         => /\ calls # << >>
            /\ LastCall.out = Ret(context.token_info)
            /\ context.token_info # no_value

\* two verifiers that both match the request; the first one authenticated it
\* and the second one was never invoked
C1_Witness ==
    /\ pc = "done"
    /\ Len(auth_funcs) = 2
    /\ Carries(auth_funcs[1]) /\ Carries(auth_funcs[2])
    /\ auth_funcs[1].kind = "apiKey" /\ auth_funcs[2].kind = "bearer"
    /\ Len(calls) = 1
    /\ context.token_info = FullInfo
    /\ Len(handler_log) = 1

\* the request carries no Authorization header and no API key under the
\* configured name in the query, the headers or the cookies
NoCredentials ==
    /\ request.headers["Authorization"] = PyNone
    /\ request.query["api_key"] = PyNone
    /\ request.headers["api_key"] = PyNone
    /\ \/ request.headers["Cookie"] = PyNone
       \/ \A k \in 1..Len(request.headers["Cookie"].v) :
            request.headers["Cookie"].v[k].key # "api_key"

\* C2: for a request without credentials every configured verifier returns
\* NoValue, the orchestrator raises NoAuthorization and the handler is not
\* invoked.
C2_NoCredentials ==
    NoCredentials
      => /\ \A k \in 1..Len(calls) : calls[k].out = Ret(no_value)
         /\ handler_log = << >>
         /\ pc = "done" => outcome = Raise(NoAuthorization)

\* C3: built with zero verifiers, the wrapper ends every request with
\* NoAuthorization, without invoking the handler or writing the context.
C3_EmptyList ==
    auth_funcs = << >> /\ pc = "done"
      => /\ outcome = Raise(NoAuthorization)
         /\ handler_log = << >>
         /\ context = EmptyContext

\* C4: whenever the handler runs, the context it sees holds as token_info
\* exactly the mapping the matching verifier returned (which is the mapping
\* its verification function returned), and as user that mapping's 'sub'
\* whenever it has one.
C4_ContextBeforeHandler ==
    \A h \in 1..Len(handler_log) :
      LET seen == handler_log[h].context
      IN  /\ calls # << >> /\ LastCall.out = Ret(seen.token_info)
          /\ fn_calls # << >>
          /\ fn_calls[Len(fn_calls)].res = Ret(seen.token_info)
          /\ seen.token_info.sub # Missing => seen.user = seen.token_info.sub
          /\ context = seen

\* the handler ran for a token info that has both 'sub' and 'uid'
C4_Witness ==
    /\ Len(handler_log) = 1
    /\ handler_log[1].context.token_info = FullInfo
    /\ handler_log[1].context.user = PyStr(Alice)

\* the verification function of the k-th verifier rejected the credential
FnRejected(k) ==
    \E j \in 1..Len(fn_calls) :
      /\ fn_calls[j].idx = k
      /\ fn_calls[j].res \in { Ret(PyNone), Raise(RemoteTokenRejected) }

\* C5: when a verifier's verification rejects the credential (null result,
\* insufficient scope, remote rejection) the failure reaches the caller, no
\* later verifier is invoked, no verifier or verification function is invoked
\* twice, and the handler is not invoked.
C5_FailFast ==
    /\ \A k \in 1..Len(calls) :
         calls[k].out.o = "raise" \/ FnRejected(k)
           => /\ k = Len(calls)
              /\ pc = "done"
              /\ outcome.o = "raise" /\ outcome = calls[k].out
              /\ handler_log = << >>
              /\ context = EmptyContext
    /\ \A j, k \in 1..Len(calls) : calls[j].idx = calls[k].idx => j = k
    /\ \A j, k \in 1..Len(fn_calls) : fn_calls[j].idx = fn_calls[k].idx => j = k

\* a bearer verifier rejected a token although the API-key verifier declared
\* after it matches the request
C5_Witness ==
    /\ pc = "done"
    /\ Len(auth_funcs) = 2
    /\ auth_funcs[1].kind = "bearer" /\ auth_funcs[2].kind = "apiKey"
    /\ Carries(auth_funcs[2])
    /\ Len(calls) = 1
    /\ Len(fn_calls) = 1
    /\ fn_calls[1].res = Ret(PyNone)
    /\ outcome = Raise(InvalidToken)

\* the Authorization header splits into a scheme and a value
WellFormed ==
    /\ request.headers["Authorization"] # PyNone
    /\ Len(SplitNone1(request.headers["Authorization"].v)) = 2
SchemeToken == SplitNone1(request.headers["Authorization"].v)[1]
\* word is the lower-case string name, up to the case of its letters
SameIgnoringCase(word, name) ==
    /\ Len(word) = Len(name)
    /\ \A k \in 1..Len(name) :
         \/ word[k] = name[k]
         \/ \E n \in 1..26 : name[k] = LowerLetters[n] /\ word[k] = UpperLetters[n]

\* C6: with a well-formed Authorization header, the bearer and oauth2
\* verifiers return NoValue without invoking their function unless the
\* scheme is 'bearer' up to case (and then they invoke it), the basic
\* verifier likewise for 'basic' (and then it invokes its function or
\* rejects the encoded value); a Basic header against [bearer or oauth2,
\* basic] reaches the basic verifier.
C6_TypeMismatch ==
    WellFormed
      => /\ \A k \in 1..Len(calls) :
              LET kind == auth_funcs[k].kind
              IN  /\ kind \in {"bearer", "oauth2"}
                       => IF SameIgnoringCase(SchemeToken, Bearer)
                          THEN FnCalled(k)
                          ELSE calls[k].out = Ret(no_value) /\ ~FnCalled(k)
                  /\ kind = "basic"
                       => IF SameIgnoringCase(SchemeToken, Basic)
                          THEN FnCalled(k) \/ calls[k].out = Raise(InvalidHeader)
                          ELSE calls[k].out = Ret(no_value) /\ ~FnCalled(k)
         /\ /\ pc = "done"
            /\ Len(auth_funcs) = 2
            /\ auth_funcs[1].kind \in {"bearer", "oauth2"}
            /\ auth_funcs[2].kind = "basic"
            /\ SameIgnoringCase(SchemeToken, Basic)
            => Len(calls) = 2 /\ calls[2].idx = 2

\* an upper-case BASIC header passed the bearer verifier as NoValue and was
\* authenticated by the basic verifier
C6_Witness ==
    /\ pc = "done"
    /\ Len(auth_funcs) = 2
    /\ auth_funcs[1].kind = "bearer" /\ auth_funcs[2].kind = "basic"
    /\ WellFormed
    /\ SchemeToken = <<"B","A","S","I","C">>
    /\ Len(calls) = 2
    /\ calls[1].out = Ret(no_value)
    /\ FnCalled(2)
    /\ Len(handler_log) = 1

\* the Authorization header is present and not empty but has no value after
\* the scheme
Malformed ==
    /\ request.headers["Authorization"] # PyNone
    /\ request.headers["Authorization"].v # << >>
    /\ Len(SplitNone1(request.headers["Authorization"].v)) # 2
ReadsAuthorization(f) == f.kind \in {"bearer", "oauth2", "basic"}

\* C7 as claimed, in its two "never" clauses: a request with a malformed
\* Authorization header is never answered with NoAuthorization and never
\* authenticated, whatever the verifier list and the other credentials.
C7_NeverNoAuthNorSuccess ==
    Malformed /\ pc = "done"
      => /\ outcome # Raise(NoAuthorization)
         /\ outcome.o # "return"
         /\ handler_log = << >>

\* C7 amended: with a malformed Authorization header every bearer, oauth2 or
\* basic verifier that is invoked raises InvalidHeader without invoking its
\* verification function; the request is answered with InvalidHeader (handler
\* not invoked, context not written) when the list has such a verifier and
\* every verifier declared before the first one returned NoValue.
C7_MalformedHeader ==
    Malformed
      => /\ \A k \in 1..Len(calls) :
              ReadsAuthorization(auth_funcs[k])
                => calls[k].out = Raise(InvalidHeader) /\ ~FnCalled(k)
         /\ /\ pc = "done"
            /\ \E j \in 1..Len(auth_funcs) :
                 /\ ReadsAuthorization(auth_funcs[j])
                 /\ \A k \in 1..(j - 1) :
                      k <= Len(calls) /\ calls[k].out = Ret(no_value)
            => /\ outcome = Raise(InvalidHeader)
               /\ handler_log = << >>
               /\ context = EmptyContext

\* an API-key verifier found no key, then the basic verifier met the
\* malformed header
C7_Witness ==
    /\ pc = "done"
    /\ Malformed
    /\ Len(auth_funcs) = 2
    /\ auth_funcs[1].kind = "apiKey" /\ auth_funcs[2].kind = "basic"
    /\ Len(calls) = 2
    /\ calls[1].out = Ret(no_value)
    /\ outcome = Raise(InvalidHeader)

\* l without x
Without(l, x) == SelectSeq(l, LAMBDA y : y # x)

\* C8: the oauth2 verifier with the default scope validator returns the
\* token info iff the required scopes are a subset of the granted ones, and
\* otherwise raises InsufficientScope carrying the required scopes and the
\* token's scopes; a granted list that passes still passes with one more
\* scope and fails without any one of the required scopes.
C8_ScopeSubset ==
    \A j \in 1..Len(fn_calls) :
      \A form \in ScopeForms, rp \in ScopeReps, g \in ScopeLists :
        fn_calls[j].res = Ret(ScopeInfo(form, rp, g))
          => LET out == calls[fn_calls[j].idx].out
                 granted == IF form = "none" THEN {} ELSE ToSet(g)
                 carried == IF form = "none" THEN PyStr(<< >>)
                            ELSE ScopeValue(rp, g)
             IN  IF ToSet(required_scopes) \subseteq granted
                 THEN /\ out = Ret(ScopeInfo(form, rp, g))
                      /\ \A x \in ScopeNames :
                           check_oauth_func(
                             Ret(ScopeInfo(form, rp, Append(g, x))),
                             required_scopes).o = "return"
                      /\ \A x \in ToSet(required_scopes) :
                           check_oauth_func(
                             Ret(ScopeInfo(form, rp, Without(g, x))),
                             required_scopes).o = "raise"
                 ELSE out = Raise(InsufficientScope(required_scopes, carried))

\* a token granting only r, as a string, was refused for an operation that
\* requires r and w
C8_Witness ==
    /\ pc = "done"
    /\ required_scopes = << R, W >>
    /\ Len(fn_calls) = 1
    /\ fn_calls[1].res = Ret(ScopeInfo("modern", "str", << R >>))
    /\ outcome = Raise(InsufficientScope(<< R, W >>, PyStr(<<"r">>)))
    /\ handler_log = << >>

\* C9: a token info with 'uid' and a 'scopes' list (and neither 'sub' nor
\* 'scope') gets the same decision as the token info holding the same values
\* under 'sub' and 'scope', and as the one holding the scopes as a 'scope'
\* string: accepted or InsufficientScope with the same scopes carried; when
\* accepted, context['user'] is the same subject.
C9_LegacyFallback ==
    \A j \in 1..Len(fn_calls) :
      \A g \in ScopeLists :
        fn_calls[j].res = Ret(ScopeInfo("legacy", "list", g))
          => LET legacy == ScopeInfo("legacy", "list", g)
                 modern == PyDict(legacy.uid, Missing, legacy.scopes,
                                  Missing, Missing)
                 out == calls[fn_calls[j].idx].out
                 twin == check_oauth_func(Ret(modern), required_scopes)
                 twinstr == check_oauth_func(
                              Ret(ScopeInfo("modern", "str", g)), required_scopes)
             IN  /\ out.o = twin.o /\ out.o = twinstr.o
                 /\ out.o = "return"
                      => /\ out.v = legacy /\ twin.v = modern
                         /\ pc = "done"
                              => /\ Len(handler_log) = 1
                                 /\ context.user = WriteContext(modern).user
                                 /\ context.user = PyStr(Alice)
                 /\ out.o = "raise"
                      => /\ out.e = twin.e
                         /\ out.e.type = "OAuthScopeProblem"
                         /\ twinstr.e.type = "OAuthScopeProblem"

\* a legacy token info granting w and r was accepted for an operation that
\* requires r and w, and its uid became the user
C9_Witness ==
    /\ pc = "done"
    /\ required_scopes = << R, W >>
    /\ Len(fn_calls) = 1
    /\ fn_calls[1].res = Ret(ScopeInfo("legacy", "list", << W, R >>))
    /\ context.user = PyStr(Alice)
    /\ Len(handler_log) = 1

\* the failure each scheme raises for a null result
RejectionOf(kind) ==
    CASE kind \in {"bearer", "oauth2"} -> InvalidToken
      [] kind = "basic" -> InvalidCredentials
      [] kind = "apiKey" -> InvalidApiKey

\* the scopes each token info of TokenInfos grants
GrantedBy(info) ==
    CASE info = EmptyInfo -> {}
      [] info = FullInfo -> { R, W }
      [] info = LegacyInfo -> { R, W }
      [] info = NarrowInfo -> { R }

\* a null result raises the scheme's failure; a NoValue result is returned
\* as NoValue and the loop goes on to the next verifier
NullAndNoValue(j) ==
    LET k == fn_calls[j].idx
        res == fn_calls[j].res
        out == calls[k].out
    IN  /\ res = Ret(PyNone) => out = Raise(RejectionOf(auth_funcs[k].kind))
        /\ res = Ret(no_value)
             => /\ out = Ret(no_value)
                /\ k < Len(calls) \/ (i = k + 1 /\ pc # "post")

\* C10 as claimed: for each of the four verifiers, once the credential was
\* extracted and the verification function called, a null result raises the
\* scheme's failure, a NoValue result is returned as NoValue, and any other
\* result is returned as the token info.
C10_Classification ==
    \A j \in 1..Len(fn_calls) :
      /\ NullAndNoValue(j)
      /\ \A info \in TokenInfos :
           fn_calls[j].res = Ret(info)
             => calls[fn_calls[j].idx].out = Ret(info)

\* C10 amended: as claimed for the bearer, basic and apiKey verifiers; the
\* oauth2 verifier returns any other result as the token info only when the
\* required scopes are among the scopes it grants, and raises
\* InsufficientScope otherwise.
C10_ClassificationScoped ==
    \A j \in 1..Len(fn_calls) :
      /\ NullAndNoValue(j)
      /\ \A info \in TokenInfos :
           fn_calls[j].res = Ret(info)
             => LET k == fn_calls[j].idx
                IN  IF auth_funcs[k].kind = "oauth2"
                       /\ ~(ToSet(required_scopes) \subseteq GrantedBy(info))
                    THEN /\ calls[k].out.o = "raise"
                         /\ calls[k].out.e.type = "OAuthScopeProblem"
                    ELSE calls[k].out = Ret(info)

\* the API-key function answered NoValue and the loop went on to an oauth2
\* verifier, whose function returned a token info without the required
\* scopes
C10_Witness ==
    /\ Len(auth_funcs) = 2
    /\ auth_funcs[1].kind = "apiKey" /\ auth_funcs[2].kind = "oauth2"
    /\ Len(fn_calls) = 2
    /\ fn_calls[1].res = Ret(no_value)
    /\ fn_calls[2].res = Ret(NarrowInfo)
    /\ required_scopes = << R, W >>
    /\ outcome = Raise(InsufficientScope(<< R, W >>, PyStr(<<"r">>)))

\* ------------------------------------------------------------------------
\* Properties of the deployed application
\* ------------------------------------------------------------------------
\* positions in a request's trace where a remote introspection was started
RemoteCalls(t) ==
    { j \in 1..Len(t.trace) : t.trace[j].ev = "start" /\ t.trace[j].http # "" }
\* the final result of the k-th verifier is known
HasResult(t, k) ==
    \E j \in 1..Len(t.trace) : t.trace[j].ev = "result" /\ t.trace[j].idx = k
\* a verifier declared after the k-th was invoked
LaterInvoked(t, k) == \E j \in 1..Len(t.trace) : t.trace[j].idx > k
\* the request's context as it now is
ContextOf(t) == heap[t.context.id]
\* the invalid-token failure of each factory's introspection
TokenRejection(factory) ==
    CASE factory = "FlaskSecurityHandlerFactory" -> RemoteTokenRejected
      [] factory = "AioHttpSecurityHandlerFactory" -> AioHttpTokenRejected
      [] OTHER -> InvalidToken
\* the request ended in `failure` at its k-th verifier, the handler was not
\* invoked, no later verifier was, and the context was not written
EndedAt(t, k, failure) ==
    /\ t.pc = "done"
    /\ t.outcome = Raise(failure)
    /\ t.handler_log = << >>
    /\ ~LaterInvoked(t, k)
    /\ ContextOf(t) = EmptyContext

\* C11: when the token-info endpoint answers a remote introspection with a
\* non-success status (4xx, 5xx), the request ends with the factory's
\* invalid-token failure (an OAuthResponseProblem) at that verifier: the
\* handler is not invoked, no later verifier is invoked and the context is
\* not written.  This holds for the base, the Flask and the aiohttp
\* introspector.
C11_RemoteRejection ==
    \A rid \in DOMAIN tasks :
      LET t == tasks[rid]
      IN  \A j \in RemoteCalls(t) :
            ( /\ t.trace[j].http = "response"
              /\ t.trace[j].status >= 400
              /\ HasResult(t, t.trace[j].idx) )
            => /\ EndedAt(t, t.trace[j].idx, TokenRejection(t.factory))
               /\ t.outcome.e.type = "OAuthResponseProblem"

\* an aiohttp request with a bearer token and an API key, secured by the
\* remote introspector and then an API-key verifier: the endpoint answered
\* 401 and the request was rejected while another request is being served
C11_Witness ==
    /\ app.state = "serving"
    /\ app.auth_funcs = << OAuth2Remote, ApiKeyQuery >>
    /\ \E rid \in DOMAIN tasks :
         LET t == tasks[rid]
         IN  /\ t.factory = "AioHttpSecurityHandlerFactory"
             /\ t.request.query["api_key"] # PyNone
             /\ Len(t.trace) = 3
             /\ t.trace[1].ev = "start" /\ t.trace[1].status = 401
             /\ t.outcome = Raise(AioHttpTokenRejected)
             /\ \E o \in DOMAIN tasks : o # rid /\ tasks[o].pc = "await"

\* C12: the body of the endpoint's answer is taken as token info only for
\* status 200; with every other status the request is rejected with the
\* invalid-token failure, by each introspector alike.
C12_OnlyStatus200 ==
    \A rid \in DOMAIN tasks :
      LET t == tasks[rid]
      IN  \A j \in RemoteCalls(t) :
            ( /\ t.trace[j].http = "response"
              /\ t.trace[j].status # 200
              /\ HasResult(t, t.trace[j].idx) )
            => EndedAt(t, t.trace[j].idx, TokenRejection(t.factory))

\* C13: a remote introspection that times out ends the request as a
\* non-success status does: with the factory's invalid-token failure, no
\* later verifier invoked, the handler not invoked.
C13_TimeoutIsRejection ==
    \A rid \in DOMAIN tasks :
      LET t == tasks[rid]
      IN  \A j \in RemoteCalls(t) :
            ( /\ t.trace[j].http = "timeout"
              /\ HasResult(t, t.trace[j].idx) )
            => EndedAt(t, t.trace[j].idx, TokenRejection(t.factory))

\* the cooperative requests
Cooperative == { rid \in DOMAIN tasks : IsAsync(tasks[rid].factory) }

\* C14: within a request served cooperatively, whatever the other requests
\* do in between, the verification function of a verifier is started only
\* once the final result of every verifier declared before it is known and
\* is NoValue; so no function (and no remote call) is ever started by a
\* verifier declared after the first one that matched.
C14_OrderedVerifiers ==
    \A rid \in Cooperative :
      LET t == tasks[rid]
      IN  \A p \in 1..Len(t.trace) :
            \A k \in 1..(t.trace[p].idx - 1) :
              \E q \in 1..(p - 1) :
                /\ t.trace[q].ev = "result"
                /\ t.trace[q].idx = k
                /\ t.trace[q].out = Ret(no_value)

\* an aiohttp request whose API-key function took awaits to answer NoValue
\* and whose remote introspection is now in flight, while the other request
\* is suspended in its own verifier
C14_Witness ==
    /\ app.auth_funcs = << ApiKeyQuery, OAuth2Remote >>
    /\ \E rid \in Cooperative :
         LET t == tasks[rid]
         IN  /\ t.pc = "await"
             /\ t.i = 2
             /\ Len(t.trace) = 4
             /\ t.trace[1].ev = "start" /\ t.trace[1].idx = 1
             /\ t.trace[3] = Result(1, Ret(no_value))
             /\ t.trace[4].ev = "start" /\ t.trace[4].http = "response"
             /\ \E o \in Cooperative : o # rid /\ tasks[o].pc = "await"

\* the two factories handling the same request
SyncTwin == tasks["r1"]
AsyncTwin == tasks["r2"]

\* C15: for every request, verifier list, required scopes and verification
\* functions, the synchronous and the asynchronous factory end in the same
\* outcome, having invoked the same verifiers and functions in the same
\* order with the same results, and with the same 'user' and 'token_info'
\* in the context and before the handler.
C15_SameSemantics ==
    (SyncTwin.pc = "done" /\ AsyncTwin.pc = "done")
    => /\ SyncTwin.outcome = AsyncTwin.outcome
       /\ SyncTwin.trace = AsyncTwin.trace
       /\ ContextOf(SyncTwin) = ContextOf(AsyncTwin)
       /\ SyncTwin.handler_log = AsyncTwin.handler_log

\* both factories found the API-key function answering NoValue, went on to
\* the bearer verifier, whose function returned a token info, and called
\* the handler with its subject
C15_Witness ==
    /\ SyncTwin.pc = "done" /\ AsyncTwin.pc = "done"
    /\ Len(app.auth_funcs) = 2
    /\ app.auth_funcs[1].kind = "apiKey" /\ app.auth_funcs[2].kind = "bearer"
    /\ Len(AsyncTwin.trace) = 6
    /\ AsyncTwin.trace[2] = Returned(1, Ret(no_value))
    /\ AsyncTwin.trace[5] = Returned(2, Ret(LegacyInfo))
    /\ AsyncTwin.handler_log =
         << [context |-> [user |-> PyStr(Bob), token_info |-> LegacyInfo]] >>
    /\ SyncTwin.outcome = Ret(HandlerResponse)

\* the results of the verifiers a request invoked
ResultsOf(t) ==
    { t.trace[j].out :
        j \in { n \in 1..Len(t.trace) : t.trace[n].ev = "result" } }

C17_NoValueNotExposed ==
    /\ context.user # no_value
    /\ context.token_info # no_value
    /\ \A n \in 1..Len(handler_log) :
         /\ handler_log[n].context.user # no_value
         /\ handler_log[n].context.token_info # no_value
    /\ (calls # << >> /\ LastCall.out = Ret(no_value))
       => /\ handler_log = << >>
          /\ context = EmptyContext
          /\ pc = "done" => outcome = Raise(NoAuthorization)

\* two verifiers, the second one's function answered NoValue itself, and
\* the request ended with NoAuthorization
C17_Witness ==
    /\ pc = "done"
    /\ Len(calls) = 2
    /\ calls[1].out = Ret(no_value)
    /\ LastCall.out = Ret(no_value)
    /\ Len(fn_calls) >= 1
    /\ fn_calls[Len(fn_calls)].idx = 2
    /\ fn_calls[Len(fn_calls)].res = Ret(no_value)
    /\ outcome = Raise(NoAuthorization)

\* the k-th invocation of a verification function answered the empty mapping
AnsweredEmpty(k) == fn_calls[k].res = Ret(EmptyInfo)

\* the request was authenticated by the empty mapping: the verifier returned
\* it, no later verifier was invoked, and the handler was called with
\* token_info = {} and user = None
AuthenticatedEmpty(k) ==
    /\ LastCall = [idx |-> fn_calls[k].idx, out |-> Ret(EmptyInfo)]
    /\ pc \in { "post", "done" }
    /\ pc = "done" =>
         /\ outcome = Ret(HandlerResponse)
         /\ handler_log =
              << [request |-> request,
                  context |-> [user |-> PyNone, token_info |-> EmptyInfo]] >>
         /\ context = [user |-> PyNone, token_info |-> EmptyInfo]

\* C18 (as stated): whenever a verification function returns an empty
\* mapping, its scheme verifier returns it as token info, the orchestrator
\* stops, the handler is invoked, context['token_info'] is the empty mapping
\* and context['user'] is null.
C18_EmptyIsTokenInfo ==
    \A k \in 1..Len(fn_calls) : AnsweredEmpty(k) => AuthenticatedEmpty(k)

\* C18 (amended): an empty mapping is never taken for NoValue nor for null.
\* A bearer, basic or apiKey verifier, and an oauth2 verifier of an
\* operation that requires no scopes, returns it as token info: the
\* orchestrator stops, the handler is invoked with token_info = {} and
\* user = None.  An oauth2 verifier of an operation that requires scopes
\* finds none granted and raises InsufficientScope, which ends the request
\* there as well.
C18_EmptyIsNotNoValue ==
    \A k \in 1..Len(fn_calls) :
      AnsweredEmpty(k) =>
        /\ k = Len(fn_calls)
        /\ LastCall.idx = fn_calls[k].idx
        /\ IF auth_funcs[fn_calls[k].idx].kind = "oauth2"
              /\ required_scopes # << >>
           THEN /\ LastCall.out =
                     Raise(InsufficientScope(required_scopes, PyStr(<< >>)))
                /\ pc = "done"
                /\ outcome = LastCall.out
                /\ handler_log = << >>
                /\ context = EmptyContext
           ELSE AuthenticatedEmpty(k)

\* a basic verifier declared before a bearer verifier: its function answered
\* the empty mapping, the bearer verifier was not invoked and the handler
\* was called
C18_Witness ==
    /\ pc = "done"
    /\ Len(auth_funcs) = 2
    /\ auth_funcs[1].kind = "basic"
    /\ Len(fn_calls) = 1
    /\ AnsweredEmpty(1)
    /\ Len(calls) = 1
    /\ Len(handler_log) = 1
    /\ context.token_info = EmptyInfo
    /\ context.user = PyNone

\* the orchestrator has written the request's context
Written(t) == t.pc = "handler" \/ (t.pc = "done" /\ t.outcome.o = "return")

\* C19: each request gets a context of its own, created empty and exactly
\* once; at every moment, however the requests interleave and whether they
\* overlap or follow each other on one worker, a request's context holds
\* nothing until the orchestrator writes that request's 'user' and
\* 'token_info' into it, the handler reads exactly those, and no two
\* requests ever have the same context.
C19_ContextIsolation ==
    \A rid \in DOMAIN tasks :
      LET t == tasks[rid]
      IN  /\ Len(t.contexts) = IF t.pc = "new" THEN 0 ELSE 1
          /\ t.pc # "new" =>
               /\ t.context = t.contexts[1]
               /\ \A o \in DOMAIN tasks \ { rid } :
                    tasks[o].pc # "new" => tasks[o].context # t.context
               /\ ContextOf(t) = IF Written(t) THEN WriteContext(t.token_info)
                                 ELSE EmptyContext
               /\ \A n \in 1..Len(t.handler_log) :
                    t.handler_log[n].context = WriteContext(t.token_info)
               /\ (~IsAsync(t.factory) /\ t.pc # "done")
                  => ctx_top[t.worker] = t.context

\* two Flask requests served one after the other by the same worker, for two
\* different subjects: each handler read its own request's token info
C19_Witness ==
    /\ tasks["r1"].factory = "FlaskSecurityHandlerFactory"
    /\ tasks["r1"].pc = "done" /\ tasks["r2"].pc = "done"
    /\ tasks["r1"].worker = tasks["r2"].worker
    /\ tasks["r1"].handler_log = << [context |-> WriteContext(FullInfo)] >>
    /\ tasks["r2"].handler_log = << [context |-> WriteContext(NarrowInfo)] >>
    /\ tasks["r1"].context # tasks["r2"].context

\* a failure that reports a faulty configuration
IsConfigurationError(out) ==
    /\ out.o = "raise"
    /\ out.e.type \in { "ConfigurationError", "ConnexionException" }

\* a security definition that names an unresolvable function fails at route
\* registration
FailsAtRegistration ==
    (app.state \notin { "none", "registering" }
     /\ app.definition = Unimportable)
    => /\ app.state = "failed"
       /\ app.error = ConfigurationError
       /\ \A rid \in DOMAIN tasks : tasks[rid].pc = "new"

\* C20 (as stated): a security definition that references an unresolvable
\* verification function fails with a configuration error when the function
\* is resolved at route registration, and no configuration error is ever
\* raised while a request is being handled.
C20_NeverAtRequestTime ==
    /\ FailsAtRegistration
    /\ \A rid \in DOMAIN tasks : ~IsConfigurationError(tasks[rid].outcome)

\* C20 (amended): a security definition that references an unresolvable
\* verification function fails with a configuration error at route
\* registration, and then no request is handled.  While a request is being
\* handled, a configuration error is raised exactly by the wrapper
\* security_deny returns: ConnexionException("Error in security
\* definitions"), for every request of such an operation, before any
\* verifier runs, with the handler not invoked and the context not written.
C20_ConfigurationErrors ==
    /\ FailsAtRegistration
    /\ \A rid \in DOMAIN tasks :
         LET t == tasks[rid]
         IN  /\ IsConfigurationError(t.outcome)
                => /\ t.outcome = Raise(SecurityDefinitionsError)
                   /\ app.wrapper = "security_deny"
                   /\ t.trace = << >>
                   /\ t.handler_log = << >>
                   /\ ContextOf(t) = EmptyContext
             /\ (t.pc = "done" /\ app.wrapper = "security_deny")
                => t.outcome = Raise(SecurityDefinitionsError)

\* the definition names a function that does not exist while the
\* environment names one that does: registration failed and the requests
\* sent to the application were never handled
C20_Witness ==
    /\ app.state = "failed"
    /\ app.definition = Unimportable
    /\ app.environ = Importable
    /\ app.error = ConfigurationError
    /\ \A rid \in DOMAIN tasks : tasks[rid].pc = "new"

\* the security failures of the pipeline
IsSecurityFailure(out) ==
    /\ out.o = "raise"
    /\ out.e.type \in { "OAuthProblem", "OAuthResponseProblem",
                        "OAuthScopeProblem" }
\* the problem response of a failure: 403 for a scope failure, 401 for the
\* others, and the description as a JSON document
ProblemOf(e) ==
    Ret([t |-> "web.Response",
         status |-> IF e.type = "OAuthScopeProblem" THEN 403 ELSE 401,
         body |-> [t |-> "json", v |-> e.description],
         content_type |-> "application/problem+json"])

\* C21: in the aiohttp application every security failure a verifier raises
\* (InvalidHeader, invalid token, credentials or API key, a rejection raised
\* by the verification function, InsufficientScope) ends the request there
\* and leaves the middleware as the problem response with the failure's
\* code and description; so does the NoAuthorization the orchestrator raises
\* when the last verifier returned NoValue; and what the handler returned
\* leaves the middleware unchanged.
C21_NoFailureSwallowed ==
    \A rid \in DOMAIN tasks :
      LET t == tasks[rid]
      IN  IsAsync(t.factory) =>
            /\ \A j \in 1..Len(t.trace) :
                 (t.trace[j].ev = "result" /\ IsSecurityFailure(t.trace[j].out))
                 => /\ j = Len(t.trace)
                    /\ t.pc = "done"
                    /\ t.outcome = t.trace[j].out
                    /\ t.response = ProblemOf(t.trace[j].out.e)
            /\ ( /\ t.pc = "done"
                 /\ t.trace # << >>
                 /\ t.trace[Len(t.trace)] =
                      Result(Len(app.auth_funcs), Ret(no_value)) )
               => /\ t.outcome = Raise(NoAuthorization)
                  /\ t.response = ProblemOf(NoAuthorization)
            /\ t.handler_log # << >>
               => t.pc = "done" /\ t.response = Ret(HandlerResponse)
            /\ (t.pc = "done" /\ t.response.o = "return"
                              /\ t.response.v # HandlerResponse)
               => IsSecurityFailure(t.outcome)

\* a token info that grants only r, returned after an await for an operation
\* that requires r and w: the request left as a 403 problem response
C21_Witness ==
    /\ AsyncTwin.pc = "done"
    /\ app.required_scopes = << R, W >>
    /\ \E j \in 1..Len(AsyncTwin.trace) :
         AsyncTwin.trace[j] = Returned(1, Ret(NarrowInfo))
    /\ AsyncTwin.outcome = Raise(InsufficientScope(<< R, W >>, PyStr(<<"r">>)))
    /\ AsyncTwin.response.o = "return"
    /\ AsyncTwin.response.v.status = 403
    /\ AsyncTwin.response.v.body.v
         = "Provided token doesn't have the required scope"

\* the remote introspections started so far, by any request
RemoteStarts ==
    UNION { { << rid, j >> : j \in RemoteCalls(tasks[rid]) } :
              rid \in DOMAIN tasks }
\* the session an introspection of this factory would go through now
SessionNow(factory) ==
    IF factory = "AioHttpSecurityHandlerFactory" THEN app.client_session
    ELSE app.session
\* every remote introspection went through the session that is there now
SameSession ==
    \A st \in RemoteStarts :
      LET t == tasks[st[1]]
      IN  t.trace[st[2]].session = SessionNow(t.factory)

Final(out) == out.o = "raise" \/ out.v.t # "coroutine"

\* C23: the coroutine factory never classifies a pending value.  While a
\* request is suspended in a verifier nothing has been classified for it;
\* what the verification function is taken to have returned, what the
\* verifier returns, the orchestrator's token_info and context['token_info']
\* are final values, also when the first await yields another coroutine (as
\* the aiohttp introspector's does); and the oauth2 verifier decides on the
\* final token info exactly as the synchronous check does, also when its
\* scope validator is a coroutine function.
C23_NeverPending ==
    \A rid \in Cooperative :
      LET t == tasks[rid]
      IN  /\ \A j \in 1..Len(t.trace) :
               /\ t.trace[j].ev = "return" => Final(t.trace[j].res)
               /\ t.trace[j].ev = "result" => Final(t.trace[j].out)
               /\ ( /\ t.trace[j].ev = "return"
                    /\ app.auth_funcs[t.trace[j].idx].kind = "oauth2" )
                  => /\ j < Len(t.trace)
                     /\ t.trace[j + 1] =
                          Result(t.trace[j].idx,
                                 check_oauth_func(t.trace[j].res,
                                                  app.required_scopes))
          /\ t.token_info.t # "coroutine"
          /\ t.pc = "await"
             => /\ t.pending.t = "coroutine"
                /\ t.trace # << >>
                /\ t.trace[Len(t.trace)].ev = "start"
                /\ t.trace[Len(t.trace)].idx = t.i
          /\ Written(t) => ContextOf(t).token_info.t = "dict"
          /\ \A n \in 1..Len(t.handler_log) :
               t.handler_log[n].context.token_info.t = "dict"

\* the aiohttp introspector was answered 200: its coroutine resolved to the
\* coroutine of the JSON body, that one to the token info, and the context
\* holds the token info; the other request was refused by a coroutine scope
\* validator or is still being served
C23_Witness ==
    \E rid \in Cooperative :
      LET t == tasks[rid]
      IN  /\ t.factory = "AioHttpSecurityHandlerFactory"
          /\ t.pc = "done"
          /\ Len(t.trace) = 3
          /\ t.trace[1].ev = "start" /\ t.trace[1].status = 200
          /\ t.trace[2] = Returned(1, Ret(FullInfo))
          /\ ContextOf(t).token_info = FullInfo

\* a coroutine scope validator refused, after being awaited, a token info
\* that itself took two awaits to arrive
C23_ValidatorWitness ==
    /\ app.auth_funcs = << OAuth2Validated >>
    /\ \E rid \in Cooperative :
         /\ tasks[rid].pc = "done"
         /\ tasks[rid].trace[2] = Returned(1, Ret(NarrowInfo))
         /\ tasks[rid].outcome =
              Raise(InsufficientScope(<< R, W >>, PyStr(<<"r">>)))

\* ------------------------------------------------------------------------
\* Properties of the credential extraction
\* ------------------------------------------------------------------------
\* the encoded value of the Authorization header
EncodedValue == SplitNone1(request.headers["Authorization"].v)[2]
\* what each encoded value stands for: the user name and the password, or
\* nothing when it is not the base64 of a text with a colon
BasicCredentials(value) ==
    CASE value = <<"Y","W","x","p","Y","2","U","6","c","2","V","j","c","m","V","0">> ->
           [ok |-> TRUE, username |-> Alice, password |-> Secret]
      [] value = <<"Y","T","p","i","O","m","M","=">> ->
           [ok |-> TRUE, username |-> <<"a">>, password |-> <<"b",":","c">>]
      [] value = <<"O","g","=","=">> ->
           [ok |-> TRUE, username |-> << >>, password |-> << >>]
      [] value = <<"6","T","p","4">> ->
           [ok |-> TRUE, username |-> <<"<byte>">>, password |-> <<"x">>]
      [] value = <<"Y","T","o","=">> ->
           [ok |-> TRUE, username |-> <<"a">>, password |-> << >>]
      [] value = <<"Y","T","p","i","!">> ->
           [ok |-> TRUE, username |-> <<"a">>, password |-> <<"b">>]
      [] OTHER -> [ok |-> FALSE, username |-> << >>, password |-> << >>]
\* the invocation of the k-th verifier's function
FnCallOf(k) == fn_calls[CHOOSE j \in 1..Len(fn_calls) : fn_calls[j].idx = k]

\* C24: for a request whose Authorization scheme is basic, the basic
\* verifier invokes the basic-info function with the user name and the
\* password the base64 value stands for (decoded as Latin-1, split at the
\* first colon, the password keeping its colons) and the required scopes;
\* when the value does not decode or has no colon it raises InvalidHeader
\* without invoking the function.  With alice:secret and a function
\* returning {'sub': 'alice'} the request succeeds with user alice.
C24_BasicExtraction ==
    /\ \A k \in 1..Len(calls) :
         ( /\ auth_funcs[k].kind = "basic"
           /\ WellFormed
           /\ SameIgnoringCase(SchemeToken, Basic) )
         => LET cred == BasicCredentials(EncodedValue)
            IN  IF cred.ok
                THEN /\ FnCalled(k)
                     /\ FnCallOf(k).args =
                          [username |-> PyStr(cred.username),
                           password |-> PyStr(cred.password),
                           required_scopes |-> required_scopes]
                ELSE /\ calls[k].out = Raise(InvalidHeader)
                     /\ ~FnCalled(k)
                     /\ pc = "done" /\ outcome = Raise(InvalidHeader)
    /\ ( /\ pc = "done"
         /\ WellFormed
         /\ BasicCredentials(EncodedValue).username = Alice
         /\ \E k \in 1..Len(fn_calls) :
              /\ auth_funcs[fn_calls[k].idx].kind = "basic"
              /\ fn_calls[k].res = Ret(SubAlice) )
       => /\ outcome = Ret(HandlerResponse)
          /\ context.user = PyStr(Alice)
          /\ context.token_info = SubAlice
          /\ Len(handler_log) = 1

\* an upper-case BASIC header for a:b:c reached the basic verifier after a
\* bearer verifier passed: the function was called with user a and password
\* b:c and the handler ran
C24_Witness ==
    /\ pc = "done"
    /\ Len(auth_funcs) = 2
    /\ auth_funcs[1].kind = "bearer" /\ auth_funcs[2].kind = "basic"
    /\ Len(fn_calls) = 1
    /\ fn_calls[1].idx = 2
    /\ fn_calls[1].args.username = PyStr(<<"a">>)
    /\ fn_calls[1].args.password = PyStr(<<"b",":","c">>)
    /\ outcome = Ret(HandlerResponse)

\* the Cookie header is absent or a list of well-formed pairs
Parsable(cookies) ==
    \/ cookies = PyNone
    \/ \A k \in 1..Len(cookies.v) :
         cookies.v[k].kind = "pair" /\ cookies.v[k].legal
\* the key the request carries at the location of the API-key definition f:
\* the named query parameter, the named header, the value of the last
\* cookie of that name; None when there is none or the location is unknown
KeyAt(f) ==
    CASE f.loc = "query" -> request.query[f.name]
      [] f.loc = "header" -> request.headers[f.name]
      [] f.loc = "cookie" ->
           LET cookies == request.headers["Cookie"]
               named == IF cookies = PyNone THEN { }
                        ELSE { k \in 1..Len(cookies.v) :
                                 cookies.v[k].key = f.name }
           IN  IF named = { } THEN PyNone
               ELSE PyStr(cookies.v[CHOOSE k \in named :
                                      \A j \in named : j <= k].val)
      [] OTHER -> PyNone

\* C25: an apiKey verifier reads the key at the location its definition
\* names and nowhere else.  Without a key there (the parameter, header or
\* cookie is missing, the request has no Cookie header, or the location is
\* none of query, header, cookie) it returns NoValue, invokes nothing and
\* raises nothing; with a key there it invokes the api-key function exactly
\* once, with that key and the required scopes.  A cookie is missing or
\* present in a Cookie header that parses; the others are C26's.
C25_ApiKeyExtraction ==
    \A k \in 1..Len(calls) :
      ( /\ auth_funcs[k].kind = "apiKey"
        /\ auth_funcs[k].loc = "cookie" => Parsable(request.headers["Cookie"]) )
      => LET key == KeyAt(auth_funcs[k])
         IN  IF key = PyNone
             THEN calls[k].out = Ret(no_value) /\ ~FnCalled(k)
             ELSE /\ Cardinality({ j \in 1..Len(fn_calls) :
                                     fn_calls[j].idx = k }) = 1
                  /\ FnCallOf(k).args =
                       [api_key |-> key, required_scopes |-> required_scopes]

\* a request with a key in the query, another in the headers and a third in
\* a cookie, handled by a header verifier whose function passed and then by
\* a cookie verifier: each function was called with the key of its own
\* location
C25_Witness ==
    /\ pc = "done"
    /\ Len(auth_funcs) = 2
    /\ auth_funcs[1].loc = "header" /\ auth_funcs[2].loc = "cookie"
    /\ request.query["api_key"] = PyStr(<<"q">>)
    /\ Len(fn_calls) = 2
    /\ fn_calls[1].args.api_key = PyStr(<<"h">>)
    /\ fn_calls[1].res = Ret(no_value)
    /\ fn_calls[2].args.api_key = PyStr(<<"c">>)
    /\ Len(handler_log) = 1

\* C26: a Cookie header that does not parse as cookie pairs makes a
\* cookie-located apiKey verifier raise InvalidHeader: not NoValue, not an
\* untyped error of the parser, and the api-key function is not invoked.
C26_MalformedCookie ==
    \A k \in 1..Len(calls) :
      ( /\ auth_funcs[k].kind = "apiKey"
        /\ auth_funcs[k].loc = "cookie"
        /\ ~Parsable(request.headers["Cookie"]) )
      => /\ calls[k].out = Raise(InvalidHeader)
         /\ ~FnCalled(k)

\* ------------------------------------------------------------------------
\* Properties of the resolution of verification functions
\* ------------------------------------------------------------------------
\* the reference the precedence selects: the definition's when present,
\* else the environment's, else none
Named ==
    IF Truthy(app.definition) THEN app.definition
    ELSE IF Truthy(app.environ) THEN app.environ
    ELSE PyNone
\* the token-info URL configured, if any
ConfiguredUrl ==
    IF Truthy(app.url_definition) THEN app.url_definition
    ELSE IF Truthy(app.url_environ) THEN app.url_environ
    ELSE PyNone
\* the function named is what was resolved; without a name, the default
FunctionPrecedence ==
    /\ Named = Importable => app.resolved = Ret([t |-> "function", v |-> Named.v])
    /\ Named = Unimportable => app.resolved = Raise(ConfigurationError)
    /\ (Named = PyNone /\ app.key = "x-scopeValidateFunc")
       => app.resolved = Ret(ValidateScopeFunc)
    /\ (Named = PyNone /\ app.key # "x-scopeValidateFunc"
                       /\ ConfiguredUrl = PyNone)
       => app.resolved = Ret(PyNone)

\* C27: each get_*_func resolves the reference of the security definition
\* when present, else the environment's, else its default (validate_scope
\* for the scope validator, none for the others); get_tokeninfo_func,
\* without a function named, returns a callable for remote introspection
\* when a token-info URL is configured, and never fails for a definition
\* that configures only a URL.
C27_ResolutionPrecedence ==
    app.state = "resolved"
    => /\ FunctionPrecedence
       /\ (Named = PyNone /\ ConfiguredUrl # PyNone)
          => /\ app.resolved.o = "return"
             /\ app.resolved.v # PyNone

\* C27, the part that holds: the precedence of the function references and
\* the defaults
C27_FunctionPrecedence == app.state = "resolved" => FunctionPrecedence

\* ------------------------------------------------------------------------
\* Properties of the scope normalisation
\* ------------------------------------------------------------------------
\* two results of the scope check agree: both accept, or both fail alike
SameValidation(a, b) ==
    /\ a.o = b.o
    /\ a.o = "raise" => a.e.type = b.e.type

\* the verifier's result for the scopes g granted in representation rp was
\* the result for the same set in every representation of reps, in any
\* order and with duplicates
IndependentOf(reps) ==
    \A j \in 1..Len(fn_calls) :
      \A form \in { "modern", "legacy" }, rp \in reps, g \in ScopeLists :
        fn_calls[j].res = Ret(ScopeInfo(form, rp, g))
          => \A rp2 \in reps, g2 \in ScopeLists :
               ToSet(g2) = ToSet(g)
                 => SameValidation(
                      calls[fn_calls[j].idx].out,
                      check_oauth_func(Ret(ScopeInfo(form, rp2, g2)),
                                       required_scopes))

\* C28: the scope check gives the same result for a set of granted scopes
\* whether it is supplied as a space-delimited string, as a list or as any
\* other sequence, for every list of required scopes; order and duplicates
\* of the scopes do not change the result.
C28_RepresentationIndependent == IndependentOf(SequenceReps)

\* C28, the part that holds: a space-delimited string and a list give the
\* same result, in any order and with duplicates
C28_StringOrList == IndependentOf(ScopeReps)

\* ------------------------------------------------------------------------
\* Properties of the request context and of the handler call
\* ------------------------------------------------------------------------
\* a context with neither key, or with both
Together(c) == (c.user = Missing) <=> (c.token_info = Missing)

\* C29: a request that ended in a raised failure has neither 'user' nor
\* 'token_info' in its context; the two keys are written only on the way to
\* the handler, after a verifier returned a token info, and always together.
C29_FailureLeavesContext ==
    /\ outcome.o = "raise" => context = EmptyContext
    /\ Together(context)
    /\ context # EmptyContext
         => /\ outcome = Ret(HandlerResponse)
            /\ context = WriteContext(token_info)
    /\ \A rid \in DOMAIN tasks :
         LET t == tasks[rid]
         IN  t.context # PyNone
               => /\ (t.pc = "done" /\ t.outcome.o = "raise")
                     => ContextOf(t) = EmptyContext
                  /\ Together(ContextOf(t))
                  /\ ContextOf(t) # EmptyContext
                       => /\ t.pc \in { "handler", "done" }
                          /\ t.token_info \notin { no_value, PyNone }
                          /\ ContextOf(t) = WriteContext(t.token_info)

\* both factories refused a token for its scopes, after the token-info
\* function had returned, and left the contexts of their requests empty
C29_Witness ==
    /\ \A rid \in RequestIds :
         /\ tasks[rid].pc = "done"
         /\ tasks[rid].outcome.o = "raise"
         /\ tasks[rid].outcome.e.type = "OAuthScopeProblem"
         /\ ContextOf(tasks[rid]) = EmptyContext

\* the events of t's trace of one kind name each verifier at most once
OncePerVerifier(t, ev) ==
    \A j, k \in 1..Len(t.trace) :
      (t.trace[j].ev = ev /\ t.trace[k].ev = ev
       /\ t.trace[j].idx = t.trace[k].idx) => j = k
\* some verifier of t returned the token info x
Authenticated(t, x) ==
    /\ x \notin { no_value, PyNone }
    /\ \E j \in 1..Len(t.trace) :
         t.trace[j].ev = "result" /\ t.trace[j].out = Ret(x)

\* C30: the wrapped handler is invoked at most once per request, only after
\* a verifier returned a token info, and with the request the verifiers saw;
\* each verifier is invoked at most once per request; the wrapper returns
\* what the handler returned.
C30_HandlerOnce ==
    /\ Len(handler_log) <= 1
    /\ \A j, k \in 1..Len(calls) : calls[j].idx = calls[k].idx => j = k
    /\ handler_log # << >>
         => /\ calls # << >>
            /\ LastCall.out = Ret(token_info)
            /\ token_info \notin { no_value, PyNone }
            /\ handler_log[1].request = request
            /\ outcome = Ret(HandlerResponse)
    /\ outcome.o = "return" => handler_log # << >>
    /\ \A rid \in DOMAIN tasks :
         LET t == tasks[rid]
         IN  /\ Len(t.handler_log) <= 1
             /\ OncePerVerifier(t, "start")
             /\ OncePerVerifier(t, "result")
             /\ \A j \in 1..Len(t.trace) :
                  t.trace[j].ev = "start"
                    => t.trace[j].args =
                         Verifier(app.auth_funcs[t.trace[j].idx], t.request,
                                  app.required_scopes, Ret(EmptyInfo)).args
             /\ t.handler_log # << >>
                  => /\ Authenticated(t, t.token_info)
                     /\ t.handler_log[1].context = WriteContext(t.token_info)
                     /\ ContextOf(t) = WriteContext(t.token_info)
                     /\ t.outcome = Ret(HandlerResponse)
             /\ t.outcome.o = "return" => t.handler_log # << >>

\* both factories called the handler once, after the first verifier found no
\* credentials and the second returned a token info
C30_Witness ==
    /\ Len(app.auth_funcs) = 2
    /\ \A rid \in RequestIds :
         /\ tasks[rid].pc = "done"
         /\ Len(tasks[rid].handler_log) = 1
         /\ HasResult(tasks[rid], 1) /\ HasResult(tasks[rid], 2)
         /\ tasks[rid].outcome = Ret(HandlerResponse)

\* ------------------------------------------------------------------------
\* Properties of the scope enforcement
\* ------------------------------------------------------------------------
\* C31: only the oauth2 verifier enforces the required scopes: a bearer, a
\* basic or an apiKey verifier returns the token info its function returned,
\* whatever scopes are required and whatever scopes the token info carries,
\* so InsufficientScope comes only from an oauth2 verifier; the bearer
\* verifier does not hand the required scopes to its function, the basic and
\* the apiKey verifier hand them over as an argument.
C31_OnlyOAuth2EnforcesScopes ==
    /\ \A k \in 1..Len(calls) :
         (calls[k].out.o = "raise"
          /\ calls[k].out.e.type = "OAuthScopeProblem")
           => auth_funcs[calls[k].idx].kind = "oauth2"
    /\ \A j \in 1..Len(fn_calls) :
         LET f == auth_funcs[fn_calls[j].idx]
             out == calls[fn_calls[j].idx].out
         IN  f.kind # "oauth2"
               => /\ \A ti \in TokenInfos :
                       fn_calls[j].res = Ret(ti) => out = Ret(ti)
                  /\ f.kind = "bearer"
                       => "required_scopes" \notin DOMAIN fn_calls[j].args
                  /\ f.kind \in { "basic", "apiKey" }
                       => /\ "required_scopes" \in DOMAIN fn_calls[j].args
                          /\ fn_calls[j].args.required_scopes = required_scopes

\* a bearer verifier let a token through that carries only r, for an
\* operation that requires r and w
C31_Witness ==
    /\ pc = "done"
    /\ required_scopes = << R, W >>
    /\ Len(auth_funcs) = 1
    /\ auth_funcs[1].kind = "bearer"
    /\ Len(fn_calls) = 1
    /\ fn_calls[1].res = Ret(NarrowInfo)
    /\ calls[1].out = Ret(NarrowInfo)
    /\ outcome = Ret(HandlerResponse)

\* ------------------------------------------------------------------------
\* Properties of termination
\* ------------------------------------------------------------------------
\* the terminal states of a request: the handler was invoked; a verifier
\* raised the failure the request ended in; NoAuthorization was raised
AuthenticatedEnd(t) ==
    /\ t.pc = "done"
    /\ t.outcome = Ret(HandlerResponse)
    /\ Len(t.handler_log) = 1
DeniedEnd(t) ==
    /\ t.pc = "done"
    /\ t.outcome.o = "raise"
    /\ \E j \in 1..Len(t.trace) :
         t.trace[j].ev = "result" /\ t.trace[j].out = t.outcome
UnauthenticatedEnd(t) ==
    /\ t.pc = "done"
    /\ t.outcome = Raise(NoAuthorization)
ExactlyOneEnd(t) ==
    \/ AuthenticatedEnd(t) /\ ~DeniedEnd(t) /\ ~UnauthenticatedEnd(t)
    \/ ~AuthenticatedEnd(t) /\ DeniedEnd(t) /\ ~UnauthenticatedEnd(t)
    \/ ~AuthenticatedEnd(t) /\ ~DeniedEnd(t) /\ UnauthenticatedEnd(t)

\* C32: for every finite verifier list, with verification functions and
\* scope validators that resolve after finitely many suspensions, every
\* request eventually reaches exactly one terminal state (Authenticated with
\* the handler invoked, Denied with a failure raised, Unauthenticated with
\* NoAuthorization raised) and does not stay pending.
C32_Termination ==
    /\ <>[]ExactlyOneEnd(tasks["r1"])
    /\ <>[]ExactlyOneEnd(tasks["r2"])

\* C32, the part that holds: every request ends, and a request is suspended
\* only inside a verifier, on a result that is still a coroutine
C32_Ends ==
    /\ <>[](tasks["r1"].pc = "done")
    /\ <>[](tasks["r2"].pc = "done")
C32_SuspendedInVerifier ==
    \A rid \in DOMAIN tasks :
      tasks[rid].pc = "await"
        => /\ tasks[rid].i <= Len(app.auth_funcs)
           /\ IsCoroutine(tasks[rid].pending)

====
